---- MODULE Spec2Model ----
(***************************************************************************)
(* Marketing attribution ETL: journey batching (IHCApiClient.create_chunks),*)
(* batch submission with bounded retries (send_transformed_data), the      *)
(* attribution loader (DataLoader.load_attribution_results), the journey   *)
(* builder (DataTransformer.transform_data), channel reporting             *)
(* (ChannelReporting) and the two pipeline entry points (main, the DAG).   *)
(***************************************************************************)
EXTENDS Integers, Sequences, FiniteSets, TLC

VARIABLES
    pc,         \* position of the modelled run
    data,       \* the transformed journey entries handed to create_chunks
    chunks,     \* the batches returned by create_chunks
    \* send_transformed_data
    conv_type_id,       \* the conv_type_id argument
    chunk_i,            \* the loop variable i: index of the current chunk, from 1
    attempt,            \* failed attempts of the current chunk
    success,            \* the current chunk has been accepted
    responses,          \* the response bodies collected so far
    successful_chunks,  \* count of accepted chunks
    response_file,      \* content of api_response.json
    returned,           \* the value returned by send_transformed_data
    \* what the run did, recorded for the properties
    posts,      \* posts[b]: POSTs issued for chunk b
    trace,      \* POSTs and sleeps in the order they happened
    accepted,   \* the chunks the client took as submitted, in that order
    last,       \* outcome of the latest attempt on the current chunk
    \* DataLoader.load_attribution_results
    api_responses,      \* the content of the API response file
    table,              \* the rows of attribution_customer_journey
    attribution_data,   \* the reconciled entries of the latest load
    error_counts,       \* the diagnostics counted by the latest load
    load_result,        \* how the latest load ended
    \* what the loads did, recorded for the properties
    table_before,       \* the rows when the latest load started
    last_written,       \* per key, the ihc of the latest load that wrote it
    table_exists,       \* attribution_customer_journey has been created
    verified,           \* the value returned by verify_attribution_data
    \* ChannelReporting: the fact tables, the rollup table and the export
    session_sources,    \* rows (session_id, channel_name, event_date)
    session_costs,      \* rows (session_id, cost)
    conversions,        \* rows (conv_id, conv_date, revenue)
    channel_reporting,  \* rows (channel_name, date, cost, ihc, ihc_revenue)
    aggregate_result,   \* how the latest aggregate_channel_metrics ended
    reporting_before,   \* channel_reporting when the latest aggregation started
    channel_report,     \* the rows of the exported report
    pending,            \* channel_reporting as the open connection sees it
    df_left,            \* rows of the query result df not inserted yet
    \* DataTransformer.transform_data
    session_sources_df, \* rows (session_id, user_id, event_date, event_time) as read
    conversions_df,     \* rows (conv_id, user_id, conv_date, conv_time) as read
    transformed_data,   \* self.transformed_data
    transform_result,   \* how transform_data ended
    \* a pipeline run
    entry_point,        \* main.py ("cli") or the task chain of the DAG ("dag")
    environ,            \* environment variables and Airflow variables of the run
    effects             \* database and network activity of the run, in order

chunkVars == <<data, chunks>>
sendVars == <<conv_type_id, chunk_i, attempt, success, responses, successful_chunks,
              response_file, returned, posts, trace, accepted, last>>
loadVars == <<api_responses, table, attribution_data, error_counts, load_result,
              table_before, last_written, table_exists, verified>>
reportVars == <<session_sources, session_costs, conversions, channel_reporting,
                aggregate_result, reporting_before, channel_report, pending,
                df_left>>
transformVars == <<session_sources_df, conversions_df, transformed_data,
                   transform_result>>
pipelineVars == <<entry_point, environ, effects>>
vars == <<pc, chunkVars, sendVars, loadVars, reportVars, transformVars, pipelineVars>>

(***************************************************************************)
(* Program constants, src/api/ihc_api.py                                   *)
(***************************************************************************)
MAX_JOURNEYS_PER_REQUEST == 85
MAX_SESSIONS_PER_REQUEST == 2750
max_attempts == 3
backoff_base == 2

(***************************************************************************)
(* Bounds of the input space                                               *)
(***************************************************************************)
NumIds == 3            \* conversion ids of the exhaustively interleaved inputs
MaxLen == 4            \* entries of the exhaustively interleaved inputs
MaxConversions == 172  \* conversions of the uniform inputs (two journey-cap splits)
MaxPerConv == 2        \* sessions per conversion of the uniform inputs
MaxBig == 2            \* conversions of the inputs with large journeys
MaxOver == 1           \* how far a large journey may exceed the session cap
MaxBatches == 3        \* batches of a submission run
MaxItems == 2          \* response items of an API response file
MaxTotal == 2          \* attribution candidates of an API response file
MaxShapeItems == 2     \* response items of the files that mix structures
MaxWeighted == 2       \* candidates of the files with signed ihc values
NumStoreKeys == 3      \* keys of the stored tables handed to verify_attribution_data
NumSessions == 2       \* sessions of the facts handed to aggregate_channel_metrics
MaxMalformed == 2      \* candidates of the files with malformed candidates
NumStamps == 2         \* days, and times of a day, of the rows handed to transform_data
MaxSessionRows == 2    \* rows of session_sources handed to transform_data

(***************************************************************************)
(* Inputs.  An entry is a JourneyEntry reduced to the fields the batcher   *)
(* reads or that identify it: conversion_id, and session_id, which is the  *)
(* entry's position in the input so that every entry is distinguishable.   *)
(***************************************************************************)
Entries(cids) ==
    [i \in 1..Len(cids) |-> [conversion_id |-> cids[i], session_id |-> i]]

RECURSIVE BlocksFrom(_, _)
BlocksFrom(sizes, k) ==
    IF k > Len(sizes) THEN <<>>
    ELSE [j \in 1..sizes[k] |-> k] \o BlocksFrom(sizes, k + 1)

RECURSIVE RestsFrom(_, _)
RestsFrom(sizes, k) ==
    IF k > Len(sizes) THEN <<>>
    ELSE [j \in 1..(sizes[k] - 1) |-> k] \o RestsFrom(sizes, k + 1)

\* conversion k has sizes[k] entries, one conversion after the other
Blocked(sizes) == BlocksFrom(sizes, 1)

\* the first entry of every conversion in reverse order, then the remaining
\* entries: conversions are interleaved and first seen in the order n..1
Scattered(sizes) ==
    [i \in 1..Len(sizes) |-> Len(sizes) + 1 - i] \o RestsFrom(sizes, 1)

SeqsUpTo(S, n) == UNION {[1..m -> S] : m \in 0..n}

SmallCids == SeqsUpTo(1..NumIds, MaxLen)

\* n conversions of s entries each, one conversion after the other
UniformBlocked(n, s) == [i \in 1..(n * s) |-> ((i - 1) \div s) + 1]

\* n conversions of s entries each, dealt in turn in the order n..1
UniformRoundRobin(n, s) == [i \in 1..(n * s) |-> n - ((i - 1) % n)]

UniformCids ==
    {UniformBlocked(n, s) : n \in 0..MaxConversions, s \in 1..MaxPerConv}
        \cup {UniformRoundRobin(n, s) : n \in 1..MaxConversions, s \in 1..MaxPerConv}

BigGroup ==
    {1, MAX_SESSIONS_PER_REQUEST \div 2, MAX_SESSIONS_PER_REQUEST \div 2 + 1}
        \cup (MAX_SESSIONS_PER_REQUEST .. MAX_SESSIONS_PER_REQUEST + MaxOver)

BigSizes == SeqsUpTo(BigGroup, MaxBig)

BigCids == {Blocked(sz) : sz \in BigSizes} \cup {Scattered(sz) : sz \in BigSizes}

\* n single-entry conversions followed by one conversion of g entries,
\* around the point where both caps are reached together
MixedCids ==
    {[i \in 1..(n + g) |-> IF i <= n THEN i ELSE n + 1] :
        n \in (MAX_JOURNEYS_PER_REQUEST - 1)..MAX_JOURNEYS_PER_REQUEST,
        g \in ((MAX_SESSIONS_PER_REQUEST - MAX_JOURNEYS_PER_REQUEST)
                  ..(MAX_SESSIONS_PER_REQUEST - MAX_JOURNEYS_PER_REQUEST + 2))
              \cup {MAX_SESSIONS_PER_REQUEST}}

CidInputs == SmallCids \cup UniformCids \cup BigCids \cup MixedCids

Inputs == {Entries(c) : c \in CidInputs}

(***************************************************************************)
(* IHCApiClient.group_by_conversion_id: a dict in insertion order, here a  *)
(* sequence of [conv_id, sessions] items in first-seen order of conv_id.   *)
(***************************************************************************)
HasKey(journeys, conv_id) ==
    \E k \in 1..Len(journeys) : journeys[k].conv_id = conv_id

KeyIndex(journeys, conv_id) ==
    CHOOSE k \in 1..Len(journeys) : journeys[k].conv_id = conv_id

\* journeys.setdefault(conv_id, []).append(session), restarting a conversion
\* whenever the previous entry belongs to another one
setdefault_append_consecutive(journeys, session) ==
    LET conv_id == session.conversion_id
        n == Len(journeys)
    IN  IF n > 0 /\ journeys[n].conv_id = conv_id
        THEN [journeys EXCEPT ![n].sessions = Append(@, session)]
        ELSE Append(journeys, [conv_id |-> conv_id, sessions |-> <<session>>])

\* journeys.setdefault(conv_id, []).append(session)
setdefault_append(journeys, session) ==
    LET conv_id == session.conversion_id
    IN  IF HasKey(journeys, conv_id)
        THEN [journeys EXCEPT ![KeyIndex(journeys, conv_id)].sessions =
                                    Append(@, session)]
        ELSE Append(journeys, [conv_id |-> conv_id, sessions |-> <<session>>])

\* the loop `for session in data' over data[lo..hi], in input order: the
\* first half of the range, then the second half from the result `left'
RECURSIVE group_loop(_, _, _, _)
group_loop(journeys, d, lo, hi) ==
    IF lo > hi THEN journeys
    ELSE IF lo = hi THEN setdefault_append(journeys, d[lo])
    ELSE LET mid == (lo + hi) \div 2
         IN  CHOOSE r \in {group_loop(left, d, mid + 1, hi) :
                            left \in {group_loop(journeys, d, lo, mid)}} : TRUE

group_by_conversion_id(d) == group_loop(<<>>, d, 1, Len(d))

(***************************************************************************)
(* IHCApiClient.create_chunks                                              *)
(***************************************************************************)
\* the limit test with the caps compared by >= instead of >
exceeds_limit_off_by_one(current_journeys, current_sessions, n) ==
    \/ current_journeys + 1 >= MAX_JOURNEYS_PER_REQUEST
    \/ current_sessions + n >= MAX_SESSIONS_PER_REQUEST

\* the limit test that forgets the journey cap
exceeds_limit_sessions_only(current_journeys, current_sessions, n) ==
    current_sessions + n > MAX_SESSIONS_PER_REQUEST

\* the limit test that forgets the session cap
exceeds_limit_journeys_only(current_journeys, current_sessions, n) ==
    current_journeys + 1 > MAX_JOURNEYS_PER_REQUEST

\* would adding a journey of n sessions exceed either limit
exceeds_limit(current_journeys, current_sessions, n) ==
    \/ current_journeys + 1 > MAX_JOURNEYS_PER_REQUEST
    \/ current_sessions + n > MAX_SESSIONS_PER_REQUEST

\* closing a chunk without keeping it
close_chunk_dropping(chs, current_chunk) == chs

\* `if current_chunk: chunks.append(current_chunk)'
close_chunk(chs, current_chunk) ==
    IF current_chunk # <<>> THEN Append(chs, current_chunk) ELSE chs

\* the state of the loop: chunks, current_chunk, current_sessions, current_journeys
chunk_start ==
    [chunks |-> <<>>, current_chunk |-> <<>>,
     current_sessions |-> 0, current_journeys |-> 0]

\* one iteration of `for conv_id, sessions in journeys.items()'
chunk_step(st, sessions) ==
    LET closed ==
            IF exceeds_limit(st.current_journeys, st.current_sessions, Len(sessions))
            THEN [chunks |-> close_chunk(st.chunks, st.current_chunk),
                  current_chunk |-> <<>>,
                  current_sessions |-> 0, current_journeys |-> 0]
            ELSE st
    IN  [chunks |-> closed.chunks,
         current_chunk |-> closed.current_chunk \o sessions,
         current_sessions |-> closed.current_sessions + Len(sessions),
         current_journeys |-> closed.current_journeys + 1]

\* the iterations for journeys[lo..hi], in dict order: the first half of the
\* range, then the second half from the state `left'
RECURSIVE chunk_loop(_, _, _, _)
chunk_loop(st, journeys, lo, hi) ==
    IF lo > hi THEN st
    ELSE IF lo = hi THEN chunk_step(st, journeys[lo].sessions)
    ELSE LET mid == (lo + hi) \div 2
         IN  CHOOSE r \in {chunk_loop(left, journeys, mid + 1, hi) :
                            left \in {chunk_loop(st, journeys, lo, mid)}} : TRUE

\* lines 48-52: the last chunk is added if not empty
chunk_result(st) == close_chunk(st.chunks, st.current_chunk)

create_chunks(d) ==
    CHOOSE r \in {chunk_result(st) :
                    st \in {chunk_loop(chunk_start, journeys, 1, Len(journeys)) :
                              journeys \in {group_by_conversion_id(d)}}} : TRUE

(***************************************************************************)
(* The batcher applied to one input                                        *)
(***************************************************************************)
NoFile == [exists |-> FALSE]
File(content) == [exists |-> TRUE, content |-> content]
NoOutcome == [kind |-> "none"]

\* send_transformed_data has not been called
SendIdle ==
    /\ conv_type_id = "conv-type"
    /\ chunk_i = 0 /\ attempt = 0 /\ success = FALSE
    /\ responses = <<>> /\ successful_chunks = 0
    /\ response_file = NoFile /\ returned = <<>>
    /\ posts = <<>> /\ trace = <<>> /\ accepted = <<>> /\ last = NoOutcome

\* load_attribution_results has not been called, the table is empty
LoadIdle ==
    /\ api_responses = NoFile
    /\ table = {}
    /\ attribution_data = <<>>
    /\ error_counts = <<>>
    /\ load_result = "none"
    /\ table_before = {}
    /\ last_written = <<>>
    /\ table_exists = FALSE
    /\ verified = "none"

\* no fact has been copied, nothing has been aggregated or exported
ReportIdle ==
    /\ session_sources = {} /\ session_costs = {} /\ conversions = {}
    /\ channel_reporting = {}
    /\ aggregate_result = "none"
    /\ reporting_before = {}
    /\ channel_report = <<>>
    /\ pending = {} /\ df_left = {}

\* transform_data has not been called
TransformIdle ==
    /\ session_sources_df = <<>> /\ conversions_df = <<>>
    /\ transformed_data = <<>>
    /\ transform_result = "none"

\* no pipeline run is modelled
PipelineIdle ==
    /\ entry_point = "none"
    /\ environ = <<>>
    /\ effects = <<>>

ChunkInit ==
    /\ pc = "chunk"
    /\ data \in Inputs
    /\ chunks = <<>>
    /\ SendIdle
    /\ LoadIdle
    /\ ReportIdle
    /\ TransformIdle
    /\ PipelineIdle

CreateChunks ==
    /\ pc = "chunk"
    /\ chunks' = create_chunks(data)
    /\ pc' = "chunked"
    /\ UNCHANGED <<data, sendVars, loadVars, reportVars, transformVars,
                   pipelineVars>>

ChunkNext == CreateChunks

ChunkSpec == ChunkInit /\ [][ChunkNext]_vars

(***************************************************************************)
(* Properties of create_chunks                                             *)
(***************************************************************************)
ConvIds(entries) == {entries[i].conversion_id : i \in 1..Len(entries)}

\* the number of entries of conversion c in the input
GroupSize(d, c) == Cardinality({i \in 1..Len(d) : d[i].conversion_id = c})

GroupsWithinCap ==
    \A c \in ConvIds(data) : GroupSize(data, c) <= MAX_SESSIONS_PER_REQUEST

RECURSIVE ConcatFrom(_, _)
ConcatFrom(chs, b) ==
    IF b > Len(chs) THEN <<>> ELSE chs[b] \o ConcatFrom(chs, b + 1)

\* the entries of all batches in emission order
Flat == ConcatFrom(chunks, 1)

\* C1: when no conversion has more than 2750 entries, every emitted batch
\* holds at most 85 distinct conversion ids and at most 2750 entries
C1_BatchCapacity ==
    (pc = "chunked" /\ GroupsWithinCap) =>
        \A b \in 1..Len(chunks) :
            /\ Cardinality(ConvIds(chunks[b])) <= MAX_JOURNEYS_PER_REQUEST
            /\ Len(chunks[b]) <= MAX_SESSIONS_PER_REQUEST

\* both caps are reached exactly and a batch had to be closed
C1_Witness ==
    /\ pc = "chunked" /\ GroupsWithinCap
    /\ Len(chunks) >= 2
    /\ \E b \in 1..Len(chunks) :
            Cardinality(ConvIds(chunks[b])) = MAX_JOURNEYS_PER_REQUEST
    /\ \E b \in 1..Len(chunks) : Len(chunks[b]) = MAX_SESSIONS_PER_REQUEST

\* the input has a conversion whose entries are separated by another one's
Interleaved(d) ==
    \E i \in 2..Len(d) :
        /\ d[i].conversion_id # d[i - 1].conversion_id
        /\ \E j \in 1..(i - 1) : d[j].conversion_id = d[i].conversion_id

\* C2: no conversion id appears in two different batches, whatever the
\* order of the input entries
C2_JourneyNotSplit ==
    pc = "chunked" =>
        \A b1, b2 \in 1..Len(chunks) :
            b1 < b2 => ConvIds(chunks[b1]) \cap ConvIds(chunks[b2]) = {}

C2_Witness ==
    /\ pc = "chunked"
    /\ Interleaved(data)
    /\ Len(chunks) >= 2

\* the positions of Flat at which the entries of another conversion start
RunStarts(f) ==
    {i \in 1..Len(f) : i = 1 \/ f[i - 1].conversion_id # f[i].conversion_id}

\* f is d regrouped by conversion id: the same entries, every conversion in
\* one run, the runs in the order in which the conversions are first seen in
\* d and the entries of a run in their order in d (session_id is the
\* position of the entry in d)
IsRegrouped(f, d) ==
    LET starts == RunStarts(f)
    IN  /\ Len(f) = Len(d)
        /\ {f[i] : i \in 1..Len(f)} = {d[i] : i \in 1..Len(d)}
        /\ Cardinality(starts) = Cardinality(ConvIds(d))
        /\ \A i \in 2..Len(f) :
                f[i - 1].conversion_id = f[i].conversion_id
                    => f[i - 1].session_id < f[i].session_id
        /\ \A i, j \in starts : i < j => f[i].session_id < f[j].session_id

\* C3: the batches concatenated in emission order are the input entries
\* regrouped by conversion id in first-seen order, each entry exactly once;
\* an empty input gives no batch
C3_ConcatIsRegroupedInput ==
    pc = "chunked" =>
        /\ LET flat == Flat IN IsRegrouped(flat, data)
        /\ (data = <<>> => chunks = <<>>)
        /\ \A b \in 1..Len(chunks) : chunks[b] # <<>>

\* regrouping moved entries and the result spans several batches
C3_Witness ==
    /\ pc = "chunked"
    /\ Len(chunks) >= 2
    /\ Flat # data

\* every conversion of the input has exactly one entry
OneSessionEach(d) == Cardinality(ConvIds(d)) = Len(d)

\* the number of entries of the first journey of a batch
FirstGroupSize(chunk) ==
    Cardinality({i \in 1..Len(chunk) : chunk[i].conversion_id = chunk[1].conversion_id})

\* C17: N conversions of one session each give ceil(N/85) batches, every
\* batch but the last with exactly 85 conversions; in general a batch is
\* followed by another one only when the first journey of that one would
\* have taken it past 85 journeys or 2750 entries
C17_ClosedOnlyAtALimit ==
    pc = "chunked" =>
        /\ OneSessionEach(data) =>
                /\ Len(chunks) = (Len(data) + MAX_JOURNEYS_PER_REQUEST - 1)
                                    \div MAX_JOURNEYS_PER_REQUEST
                /\ \A b \in 1..(Len(chunks) - 1) :
                        /\ Len(chunks[b]) = MAX_JOURNEYS_PER_REQUEST
                        /\ Cardinality(ConvIds(chunks[b])) = MAX_JOURNEYS_PER_REQUEST
        /\ \A b \in 1..(Len(chunks) - 1) :
                \/ Cardinality(ConvIds(chunks[b])) + 1 > MAX_JOURNEYS_PER_REQUEST
                \/ Len(chunks[b]) + FirstGroupSize(chunks[b + 1])
                        > MAX_SESSIONS_PER_REQUEST

\* 90 conversions of one session each: a batch of 85 and a batch of 5
C17_Witness ==
    /\ pc = "chunked"
    /\ OneSessionEach(data) /\ Len(data) = 90
    /\ Len(chunks) = 2
    /\ Len(chunks[1]) = 85 /\ Len(chunks[2]) = 5

\* a conversion of the input with more entries than the session cap
Oversized(c) == GroupSize(data, c) > MAX_SESSIONS_PER_REQUEST

Statuses == {200, 201, 206, 500}

Outcomes ==
    {[kind |-> "transport_error"]}
        \cup {[kind |-> "http", status |-> st, json_ok |-> j] :
                st \in Statuses, j \in BOOLEAN}

\* the inputs of a run: empty data, or as many single-entry conversions as
\* give 1..MaxBatches chunks
SendInputs ==
    {Entries(UniformBlocked(n, 1)) :
        n \in {0} \cup {(b - 1) * MAX_JOURNEYS_PER_REQUEST + 1 : b \in 1..MaxBatches}}

\* the loop condition that allows one attempt too many
may_attempt_once_more(att, succ) == att <= max_attempts /\ ~succ

\* `while attempt < max_attempts and not success'
may_attempt(att, succ) == att < max_attempts /\ ~succ

\* response.raise_for_status(): raises for 4xx and 5xx
raise_for_status(status) == 400 <= status /\ status < 600

\* every 2xx status taken as a success
status_accepted_any_2xx(status) == 200 <= status /\ status < 300

\* `if response.status_code in [200, 206]'
status_accepted(status) == status \in {200, 206}

\* the try block raises: empty conv_type_id, requests.post, raise_for_status,
\* response.json() or the HTTPError of the else branch
attempt_raises(ct, o) ==
    \/ ct = ""
    \/ o.kind = "transport_error"
    \/ raise_for_status(o.status)
    \/ ~o.json_ok
    \/ ~status_accepted(o.status)

\* the request is issued unless conv_type_id is rejected first
issues_post(ct) == ct # ""

\* `wait_time = backoff_base ** attempt'
wait_time(att) == backoff_base ^ att

\* the retry counter carried over from the previous chunk
initial_attempt_kept(att) == att

\* `attempt = 0' at the start of every chunk
initial_attempt(att) == 0

\* the run fails as soon as one chunk was not accepted
no_valid_responses_any_failed(resp, ok_chunks, total_chunks) ==
    ok_chunks < total_chunks

\* `if not responses'
no_valid_responses(resp, ok_chunks, total_chunks) == resp = <<>>

\* the pacing sleep after every accepted chunk
more_chunks_or_last(i, total_chunks) == i <= total_chunks

\* line 141: `if i < total_chunks'
more_chunks(i, total_chunks) == i < total_chunks

\* the parsed body of the answer to chunk b
response_data(b, o) == [batch |-> b, status |-> o.status]

SendInit ==
    /\ pc = "send"
    /\ data \in SendInputs
    /\ chunks = <<>>
    /\ SendIdle
    /\ LoadIdle
    /\ ReportIdle
    /\ TransformIdle
    /\ PipelineIdle

\* lines 88-102: read the data, validate it, chunk it, start the loop
SendStart ==
    /\ pc = "send"
    /\ IF data = <<>>
       THEN /\ pc' = "raised"
            /\ UNCHANGED <<chunks, posts, chunk_i>>
       ELSE /\ chunks' = create_chunks(data)
            /\ posts' = [b \in 1..Len(chunks') |-> 0]
            /\ chunk_i' = 1
            /\ pc' = "for"
    /\ UNCHANGED <<data, conv_type_id, attempt, success, responses,
                   successful_chunks, response_file, returned, trace, accepted,
                   last, loadVars, reportVars, transformVars,
                   pipelineVars>>

\* lines 104-112: the next chunk of `for i, chunk in enumerate(chunks, 1)'
EnterChunk ==
    /\ pc = "for"
    /\ chunk_i <= Len(chunks)
    /\ IF chunks[chunk_i] = <<>>
       THEN /\ chunk_i' = chunk_i + 1
            /\ UNCHANGED <<pc, attempt, success>>
       ELSE /\ attempt' = initial_attempt(attempt)
            /\ success' = FALSE
            /\ pc' = "while"
            /\ UNCHANGED chunk_i
    /\ last' = NoOutcome
    /\ UNCHANGED <<chunkVars, conv_type_id, responses, successful_chunks,
                   response_file, returned, posts, trace, accepted, loadVars, reportVars, transformVars,
                   pipelineVars>>

\* lines 114-160: one iteration of the retry loop
Attempt ==
    /\ pc = "while"
    /\ may_attempt(attempt, success)
    /\ \E o \in Outcomes :
        /\ last' = o
        /\ LET posted == IF issues_post(conv_type_id)
                         THEN <<[e |-> "post", batch |-> chunk_i]>> ELSE <<>>
           IN  IF attempt_raises(conv_type_id, o)
               THEN /\ attempt' = attempt + 1
                    /\ trace' = trace \o posted \o
                                <<[e |-> "backoff", batch |-> chunk_i,
                                   seconds |-> wait_time(attempt + 1)]>>
                    /\ UNCHANGED <<responses, successful_chunks, success, accepted>>
               ELSE /\ responses' = Append(responses, response_data(chunk_i, o))
                    /\ successful_chunks' = successful_chunks + 1
                    /\ success' = TRUE
                    /\ accepted' = Append(accepted, chunk_i)
                    /\ trace' = trace \o posted \o
                                (IF more_chunks(chunk_i, Len(chunks))
                                 THEN <<[e |-> "pace", batch |-> chunk_i,
                                         seconds |-> 1]>>
                                 ELSE <<>>)
                    /\ UNCHANGED attempt
        /\ posts' = IF issues_post(conv_type_id)
                    THEN [posts EXCEPT ![chunk_i] = @ + 1] ELSE posts
    /\ UNCHANGED <<pc, chunkVars, conv_type_id, chunk_i, response_file, returned,
                   loadVars, reportVars, transformVars,
                   pipelineVars>>

\* line 114: the retry loop ends, the for loop moves on
ExitWhile ==
    /\ pc = "while"
    /\ ~may_attempt(attempt, success)
    /\ chunk_i' = chunk_i + 1
    /\ pc' = "for"
    /\ UNCHANGED <<chunkVars, conv_type_id, attempt, success, responses,
                   successful_chunks, response_file, returned, posts, trace,
                   accepted, last, loadVars, reportVars, transformVars,
                   pipelineVars>>

\* lines 161-172: after the loop
Finish ==
    /\ pc = "for"
    /\ chunk_i > Len(chunks)
    /\ IF no_valid_responses(responses, successful_chunks, Len(chunks))
       THEN /\ pc' = "raised"
            /\ UNCHANGED <<response_file, returned>>
       ELSE /\ response_file' = File(responses)
            /\ returned' = responses
            /\ pc' = "returned"
    /\ UNCHANGED <<chunkVars, conv_type_id, chunk_i, attempt, success, responses,
                   successful_chunks, posts, trace, accepted, last, loadVars, reportVars, transformVars,
                   pipelineVars>>

SendNext == SendStart \/ EnterChunk \/ Attempt \/ ExitWhile \/ Finish

SendSpec == SendInit /\ [][SendNext]_vars

\* the run is one sequential call: it keeps running until it returns or raises
SendFairSpec == SendSpec /\ WF_vars(SendNext)

(***************************************************************************)
(* Properties of send_transformed_data                                     *)
(***************************************************************************)
SendDone == pc \in {"returned", "raised"}

RECURSIVE SumFrom(_, _)
SumFrom(f, k) == IF k > Len(f) THEN 0 ELSE f[k] + SumFrom(f, k + 1)

TotalPosts == SumFrom(posts, 1)

Range(f) == {f[k] : k \in 1..Len(f)}

IsPrefix(a, b) == Len(a) <= Len(b) /\ \A k \in 1..Len(a) : a[k] = b[k]

\* the latest attempt got an answer with status 200 or 206
LastStatusOk == last.kind = "http" /\ last.status \in {200, 206}

\* C4: every batch is POSTed at most 3 times, again only after a failed
\* attempt and never once it was accepted; a run over N batches issues
\* between N and 3N POSTs, and it terminates whatever the outcomes are
C4_BoundedRetries ==
    /\ [](\A b \in 1..Len(posts) : posts[b] <= 3)
    /\ [][\A b \in 1..Len(posts) :
            posts'[b] > posts[b] =>
                /\ b \notin Range(accepted)
                /\ posts[b] > 0 => (last # NoOutcome /\ ~success)]_vars
    /\ [](SendDone =>
            /\ Len(chunks) <= TotalPosts
            /\ TotalPosts <= 3 * Len(chunks))
    /\ <>SendDone

\* a run in which one batch was accepted at once and another on its third POST
C4_Witness ==
    /\ pc = "returned"
    /\ \E b \in 1..Len(posts) : posts[b] = 3 /\ b \in Range(accepted)
    /\ \E b \in 1..Len(posts) : posts[b] = 1

\* C5: a batch that fails all its attempts does not abort the run: every
\* batch is still submitted and gives up only after 3 POSTs of its own, and
\* the responses collected so far are kept and returned
C5_BatchFailureNotFatal ==
    /\ [](SendDone =>
            \A b \in 1..Len(chunks) :
                /\ posts[b] >= 1
                /\ b \in Range(accepted) \/ posts[b] = 3)
    /\ [][IsPrefix(responses, responses')]_vars
    /\ []((SendDone /\ responses # <<>>) =>
            (pc = "returned" /\ returned = responses))

\* batch 1 accepted, batch 2 exhausted, batch 3 accepted on its last attempt
C5_Witness ==
    /\ pc = "returned"
    /\ Len(chunks) >= 3
    /\ 1 \in Range(accepted)
    /\ 2 \notin Range(accepted) /\ posts[2] = 3
    /\ 3 \in Range(accepted) /\ posts[3] = 3
    /\ Len(returned) = 2

\* C6: the run raises, without writing the response file, if and only if no
\* batch was accepted; otherwise it returns and saves the responses, one per
\* accepted batch, in batch order
C6_FatalIffNoSuccess ==
    SendDone =>
        /\ pc = "raised" <=> accepted = <<>>
        /\ pc = "raised" => (response_file = NoFile /\ returned = <<>>)
        /\ pc = "returned" =>
            /\ returned = responses
            /\ response_file = File(responses)
            /\ [k \in 1..Len(returned) |-> returned[k].batch] = accepted
            /\ \A k \in 1..(Len(accepted) - 1) : accepted[k] < accepted[k + 1]

\* some batches accepted, one not
C6_Witness ==
    /\ pc = "returned"
    /\ Len(accepted) >= 2
    /\ Len(accepted) < Len(chunks)

\* C7 as stated: an attempt is a success exactly when the status is 200 or 206
C7_SuccessIffStatus200or206 ==
    (pc = "while" /\ last # NoOutcome) => (success <=> LastStatusOk)

\* C7 (amended): an attempt is a success exactly when the status is 200 or
\* 206 and the body parses as JSON; any other attempt appends nothing to the
\* responses and is followed by a retry while fewer than 3 attempts failed
C7_SuccessIffStatusAndJsonBody ==
    /\ []((pc = "while" /\ last # NoOutcome) =>
            /\ success <=> (LastStatusOk /\ last.json_ok)
            /\ (~success /\ attempt < 3) => (ENABLED Attempt /\ ~ENABLED ExitWhile))
    /\ [][(pc = "while" /\ last' # last) =>
            IF last'.kind = "http" /\ last'.status \in {200, 206} /\ last'.json_ok
            THEN Len(responses') = Len(responses) + 1
            ELSE responses' = responses /\ attempt' = attempt + 1]_vars

\* a 2xx status other than 200 and 206 counted as a failed first attempt
C7_Witness ==
    /\ pc = "while"
    /\ last.kind = "http" /\ last.status = 201 /\ last.json_ok
    /\ ~success /\ attempt = 1
    /\ responses = <<>>

\* the number of backoff sleeps of batch b among the first p events
BackoffsUpTo(p, b) ==
    Cardinality({q \in 1..p : trace[q].e = "backoff" /\ trace[q].batch = b})

\* C20: every backoff sleep comes right after a failed attempt on a batch,
\* lasts 2^k seconds after the k-th failure of that batch and is followed
\* by another attempt on the same batch
C20_BackoffBetweenAttempts ==
    \A p \in 1..Len(trace) :
        trace[p].e = "backoff" =>
            /\ p > 1 /\ trace[p - 1] = [e |-> "post", batch |-> trace[p].batch]
            /\ trace[p].seconds = 2 ^ BackoffsUpTo(p, trace[p].batch)
            /\ p < Len(trace) => trace[p + 1] = [e |-> "post", batch |-> trace[p].batch]
            /\ SendDone => p < Len(trace)

\* the positions of the pacing sleeps after batch b
PacesOf(b) == {p \in 1..Len(trace) : trace[p].e = "pace" /\ trace[p].batch = b}

\* C29: a batch is followed by one pacing sleep of 1 second when it was
\* accepted and is not the last one, and by none otherwise (the last batch,
\* a batch that exhausted its attempts); the sleep comes right after the
\* accepted POST and the next request is the first POST of the next batch
C29_PacingIffMoreBatches ==
    /\ \A b \in 1..Len(chunks) :
            Cardinality(PacesOf(b)) =
                IF b \in Range(accepted) /\ b < Len(chunks) THEN 1 ELSE 0
    /\ \A p \in 1..Len(trace) :
            trace[p].e = "pace" =>
                /\ trace[p].seconds = 1
                /\ p > 1 /\ trace[p - 1] = [e |-> "post", batch |-> trace[p].batch]
                /\ p < Len(trace) =>
                        trace[p + 1] = [e |-> "post", batch |-> trace[p].batch + 1]
                /\ SendDone => p < Len(trace)

\* three batches: the first accepted and paced, the second given up after
\* its attempts, the third accepted with nothing after it
C29_Witness ==
    /\ SendDone
    /\ Len(chunks) = 3
    /\ accepted = <<1, 3>>
    /\ posts[2] = max_attempts
    /\ Cardinality(PacesOf(1)) = 1
    /\ PacesOf(2) = {} /\ PacesOf(3) = {}
    /\ trace[Len(trace)] = [e |-> "post", batch |-> 3]

(***************************************************************************)
(* JSON values of the API response file.  Numbers that carry an ihc are    *)
(* counted in tenths (4 is 0.4).                                           *)
(***************************************************************************)
JNull == [t |-> "null"]
JStr(x) == [t |-> "str", s |-> x]
JInt(n) == [t |-> "int", n |-> n]
JNum(x) == [t |-> "num", x |-> x]
JList(items) == [t |-> "list", items |-> items]
JDict(f) == [t |-> "dict", f |-> f]

\* attribution candidates the service may return: two ihc values for one
\* key, an integer and a string conversion id that read the same, a
\* candidate without ihc and one with an empty conversion id
Cands ==
    {JDict([conversion_id |-> JStr("c1"), session_id |-> JStr("s1"), ihc |-> JNum(4)]),
     JDict([conversion_id |-> JStr("c1"), session_id |-> JStr("s1"), ihc |-> JNum(6)]),
     JDict([conversion_id |-> JInt(7), session_id |-> JStr("s1"), ihc |-> JNum(6)]),
     JDict([conversion_id |-> JStr("7"), session_id |-> JStr("s1"), ihc |-> JNum(4)]),
     JDict([conversion_id |-> JStr("c1"), session_id |-> JStr("s1")]),
     JDict([conversion_id |-> JStr(""), session_id |-> JStr("s1"), ihc |-> JNum(4)])}

\* response items that carry the candidates cs
ItemsWith(cs) ==
    {JDict([statusCode |-> JInt(200), value |-> JList(cs)]),
     JDict([statusCode |-> JInt(200), data |-> JList(cs)]),
     JDict([data |-> JList(cs)]),
     JDict([results |-> JList(cs)]),
     JList(cs),
     JDict([statusCode |-> JInt(200), value |-> JList(cs),
            partialFailureErrors |-> JList(<<JStr("e1"), JStr("e2")>>)]),
     JDict([data |-> JList(cs), error |-> JStr("partial outage")])}

\* response items that carry no candidate
ItemsWithout ==
    {JDict([statusCode |-> JInt(200), value |-> JList(<<>>)]),
     JDict([error |-> JStr("quota exceeded")]),
     JDict([error |-> JStr("quota exceeded"), error_code |-> JStr("E429")]),
     JDict([message |-> JStr("accepted")]),
     JStr("Service Unavailable")}

\* the responses of status 200 whose value list holds k candidates
ItemsOf(k) ==
    {JDict([statusCode |-> JInt(200), value |-> JList(cs)]) : cs \in [1..k -> Cands]}

\* the files of m such responses with at most t candidates in all
RECURSIVE StreamsOf(_, _)
StreamsOf(m, t) ==
    IF m = 0 THEN {<<>>}
    ELSE UNION {{<<item>> \o rest : item \in ItemsOf(k), rest \in StreamsOf(m - 1, t - k)} :
                    k \in 0..t}

\* response items of every structure: without a candidate, or with one of
\* two candidates of the same key
ShapeItems ==
    ItemsWithout \cup
    UNION {ItemsWith(<<c>>) :
            c \in {JDict([conversion_id |-> JStr("c1"), session_id |-> JStr("s1"),
                          ihc |-> JNum(x)]) : x \in {4, 6}}}

\* the files of at most MaxShapeItems items of every structure
ShapeStreams == UNION {[1..m -> ShapeItems] : m \in 0..MaxShapeItems}

Streams == ShapeStreams \cup UNION {StreamsOf(m, MaxTotal) : m \in 0..MaxItems}

(***************************************************************************)
(* DataLoader.load_attribution_results                                     *)
(***************************************************************************)
\* the branches with the legacy structures tested before the status code
classify_legacy_first(response) ==
    IF response.t = "dict"
    THEN IF "data" \in DOMAIN response.f THEN "data"
         ELSE IF "results" \in DOMAIN response.f THEN "results"
         ELSE IF "statusCode" \in DOMAIN response.f /\ response.f.statusCode = JInt(200)
         THEN IF "value" \in DOMAIN response.f /\ response.f.value.t = "list"
              THEN "value"
              ELSE "missing_value"
         ELSE IF "error" \in DOMAIN response.f THEN "error"
         ELSE "invalid_structure"
    ELSE IF response.t = "list" THEN "list"
    ELSE "invalid_type"

\* lines 35-67: the branch that handles a response item
classify(response) ==
    IF response.t = "dict"
    THEN IF "statusCode" \in DOMAIN response.f /\ response.f.statusCode = JInt(200)
         THEN IF "value" \in DOMAIN response.f /\ response.f.value.t = "list"
              THEN "value"
              ELSE "missing_value"
         ELSE IF "data" \in DOMAIN response.f THEN "data"
         ELSE IF "results" \in DOMAIN response.f THEN "results"
         ELSE IF "error" \in DOMAIN response.f THEN "error"
         ELSE "invalid_structure"
    ELSE IF response.t = "list" THEN "list"
    ELSE "invalid_type"

\* the value handed to valid_responses.extend by the branch
extended(response) ==
    CASE classify(response) = "value" -> response.f.value
      [] classify(response) = "data" -> response.f.data
      [] classify(response) = "results" -> response.f.results
      [] classify(response) = "list" -> response
      [] OTHER -> JList(<<>>)

\* list.extend raises TypeError for a value that is not iterable
extend_raises(v) == v.t \in {"null", "int", "num"}

\* error_counts[key] += 1 on a defaultdict(int)
count(ec, key) ==
    IF key \in DOMAIN ec THEN [ec EXCEPT ![key] = @ + 1]
    ELSE [x \in DOMAIN ec \cup {key} |-> IF x = key THEN 1 ELSE ec[x]]

RECURSIVE count_times(_, _, _)
count_times(ec, key, n) ==
    IF n = 0 THEN ec ELSE count_times(count(ec, key), key, n - 1)

\* lines 41-43, 46, 56, 59, 65: the diagnostics counted for a response item
counted(ec, response) ==
    CASE classify(response) = "value" ->
            IF /\ "partialFailureErrors" \in DOMAIN response.f
               /\ response.f.partialFailureErrors.t = "list"
            THEN count_times(ec, "partial_failure",
                             Len(response.f.partialFailureErrors.items))
            ELSE ec
      [] classify(response) = "missing_value" -> count(ec, "missing_value")
      [] classify(response) = "error" ->
            count(ec, IF "error_code" \in DOMAIN response.f
                      THEN response.f.error_code.s ELSE "unknown_error")
      [] classify(response) = "invalid_structure" -> count(ec, "invalid_structure")
      [] classify(response) = "invalid_type" -> count(ec, "invalid_type")
      [] OTHER -> ec

\* lines 34-67: `for idx, response in enumerate(api_responses)' from item k on
RECURSIVE process_responses(_, _, _)
process_responses(st, resp, k) ==
    IF k > Len(resp) \/ st.raised THEN st
    ELSE IF extend_raises(extended(resp[k]))
    THEN [st EXCEPT !.raised = TRUE]
    ELSE process_responses(
            [valid_responses |-> st.valid_responses \o extended(resp[k]).items,
             error_counts |-> counted(st.error_counts, resp[k]),
             raised |-> FALSE],
            resp, k + 1)

\* `key in result': a dict key, an element of a list; TypeError otherwise
\* (no string of the model contains one of the three keys)
contains(result, key) ==
    CASE result.t = "dict" -> key \in DOMAIN result.f
      [] result.t = "list" -> \E n \in 1..Len(result.items) : result.items[n] = JStr(key)
      [] OTHER -> FALSE

contains_raises(result) == result.t \in {"null", "int", "num"}

\* line 92: all(key in result for key in ('conversion_id', 'session_id', 'ihc'))
has_all_keys(result) ==
    \A key \in {"conversion_id", "session_id", "ihc"} : contains(result, key)

\* str(x)
str(v) ==
    CASE v.t = "str" -> v.s
      [] v.t = "int" -> ToString(v.n)
      [] v.t = "null" -> "None"
      [] OTHER -> "<repr>"

\* float(x), in tenths
float(v) ==
    CASE v.t = "num" -> v.x
      [] v.t = "int" -> 10 * v.n

\* float(x) raises TypeError or ValueError (no string of the model is numeric)
float_raises(v) == v.t \notin {"num", "int"}

\* lines 97-101
entry_of(result) ==
    [conv_id |-> str(result.f.conversion_id),
     session_id |-> str(result.f.session_id),
     ihc |-> float(result.f.ihc)]

key_of(entry) == <<entry.conv_id, entry.session_id>>

\* a later entry with a key already seen replaces the earlier one
dedup_last_wins(st, entry) ==
    IF key_of(entry) \in st.seen
    THEN [st EXCEPT !.attribution_data =
            [n \in 1..Len(@) |-> IF key_of(@[n]) = key_of(entry) THEN entry ELSE @[n]]]
    ELSE [st EXCEPT !.seen = @ \cup {key_of(entry)},
                    !.attribution_data = Append(@, entry)]

\* lines 108-114: an entry with a key already seen is dropped
dedup(st, entry) ==
    IF key_of(entry) \in st.seen
    THEN st
    ELSE [st EXCEPT !.seen = @ \cup {key_of(entry)},
                    !.attribution_data = Append(@, entry)]

\* lines 90-114: one iteration of `for result in valid_responses'
reconcile_step(st, result) ==
    IF contains_raises(result) THEN [st EXCEPT !.raised = TRUE]
    ELSE IF ~has_all_keys(result) THEN st
    ELSE IF result.t # "dict" THEN [st EXCEPT !.raised = TRUE]
    ELSE IF float_raises(result.f.ihc) THEN [st EXCEPT !.raised = TRUE]
    ELSE IF entry_of(result).conv_id = "" \/ entry_of(result).session_id = "" THEN st
    ELSE dedup(st, entry_of(result))

RECURSIVE reconcile(_, _, _)
reconcile(st, valid_responses, k) ==
    IF k > Len(valid_responses) \/ st.raised THEN st
    ELSE reconcile(reconcile_step(st, valid_responses[k]), valid_responses, k + 1)

RECURSIVE total(_, _)
total(entries, k) ==
    IF k > Len(entries) THEN 0 ELSE entries[k].ihc + total(entries, k + 1)

\* a total of zero let through
invalid_total_negative(total_ihc) == total_ihc < 0

\* line 121: `if total_ihc <= 0'
invalid_total(total_ihc) == total_ihc <= 0

\* a plain INSERT into a table without the uniqueness constraint
insert_plain(rows, entry) == rows \cup {entry}

\* INSERT OR IGNORE: the stored row wins
insert_or_ignore(rows, entry) ==
    IF \E r \in rows : key_of(r) = key_of(entry) THEN rows ELSE rows \cup {entry}

\* the table is emptied before the row is written
insert_into_emptied(rows, entry) == {entry}

\* lines 127-142: INSERT OR REPLACE under UNIQUE(conv_id, session_id) ON
\* CONFLICT REPLACE: the rows with the key of the new row are deleted
insert_or_replace(rows, entry) ==
    {r \in rows : key_of(r) # key_of(entry)} \cup {entry}

\* conn.executemany
RECURSIVE executemany(_, _, _)
executemany(rows, entries, k) ==
    IF k > Len(entries) THEN rows
    ELSE executemany(insert_or_replace(rows, entries[k]), entries, k + 1)

\* the empty valid_responses let through
no_valid_data_ignored(valid_responses) == FALSE

\* line 81: `if not valid_responses'
no_valid_data(valid_responses) == valid_responses = <<>>

\* lines 29-143: the outcome of load_attribution_results on the file content
\* resp and the stored rows
load_content(resp, rows) ==
    LET p == process_responses(
                [valid_responses |-> <<>>, error_counts |-> <<>>, raised |-> FALSE],
                resp, 1)
        r == reconcile([attribution_data |-> <<>>, seen |-> {}, raised |-> FALSE],
                       p.valid_responses, 1)
        failed(ec, ad) == [result |-> "raised", table |-> rows,
                           attribution_data |-> ad, error_counts |-> ec]
    IN  IF p.raised THEN failed(p.error_counts, <<>>)
        ELSE IF no_valid_data(p.valid_responses) THEN failed(p.error_counts, <<>>)
        ELSE IF r.raised THEN failed(p.error_counts, r.attribution_data)
        ELSE IF Len(r.attribution_data) = 0
        THEN [result |-> "returned_empty", table |-> rows,
              attribution_data |-> <<>>, error_counts |-> p.error_counts]
        ELSE IF invalid_total(total(r.attribution_data, 1))
        THEN failed(p.error_counts, r.attribution_data)
        ELSE [result |-> "loaded",
              table |-> executemany(rows, r.attribution_data, 1),
              attribution_data |-> r.attribution_data,
              error_counts |-> p.error_counts]

\* lines 19-24: the file must exist
load_outcome(file, rows) ==
    IF ~file.exists
    THEN [result |-> "raised", table |-> rows,
          attribution_data |-> <<>>, error_counts |-> <<>>]
    ELSE load_content(file.content, rows)

\* the keys written by a load and the ihc it wrote for each
Keys(entries) == {key_of(entries[n]) : n \in 1..Len(entries)}

Written(entries, key) ==
    entries[CHOOSE n \in 1..Len(entries) : key_of(entries[n]) = key].ihc

\* a count of every row, whatever its ihc
verify_any_row(exists, rows) == exists /\ rows # {}

\* verify_attribution_data: SELECT COUNT(*) ... WHERE ihc > 0 is not 0; the
\* query raises when the table is missing and the handler returns False
verify_attribution_data(exists, rows) ==
    exists /\ \E r \in rows : r.ihc > 0

\* a Python bool as the caller sees it
returned_bool(b) == IF b THEN "True" ELSE "False"

\* the database as set up: the table may have been created by the schema
\* script, it holds no row
LoadInit ==
    /\ pc = "idle"
    /\ data = <<>> /\ chunks = <<>>
    /\ SendIdle
    /\ api_responses = NoFile
    /\ table = {}
    /\ attribution_data = <<>>
    /\ error_counts = <<>>
    /\ load_result = "none"
    /\ table_before = {}
    /\ last_written = <<>>
    /\ table_exists \in BOOLEAN
    /\ verified = "none"
    /\ ReportIdle
    /\ TransformIdle
    /\ PipelineIdle

\* a submission run leaves an API response file
ReceiveResponses ==
    /\ pc = "idle"
    /\ api_responses' \in {File(content) : content \in Streams}
    /\ pc' = "load"
    /\ UNCHANGED <<chunkVars, sendVars, table, attribution_data, error_counts,
                   load_result, table_before, last_written, table_exists,
                   verified, reportVars, transformVars,
                   pipelineVars>>

\* lines 16-147
LoadAttributionResults ==
    /\ pc = "load"
    /\ LET out == load_outcome(api_responses, table)
       IN  /\ table' = out.table
           /\ table_exists' = (table_exists \/ out.result = "loaded")
           /\ attribution_data' = out.attribution_data
           /\ error_counts' = out.error_counts
           /\ load_result' = out.result
           /\ table_before' = table
           /\ last_written' =
                IF out.result = "loaded"
                THEN [key \in DOMAIN last_written \cup Keys(out.attribution_data) |->
                        IF key \in Keys(out.attribution_data)
                        THEN Written(out.attribution_data, key)
                        ELSE last_written[key]]
                ELSE last_written
    /\ pc' = "loaded"
    /\ UNCHANGED <<chunkVars, sendVars, api_responses, verified, reportVars, transformVars,
                   pipelineVars>>

\* the exception of load_attribution_results ends the pipeline run
LoadRaised ==
    /\ pc = "loaded"
    /\ load_result = "raised"
    /\ pc' = "aborted"
    /\ UNCHANGED <<chunkVars, sendVars, loadVars, reportVars, transformVars,
                   pipelineVars>>

\* the load returned: the pipeline goes on to the report stage when
\* verify_attribution_data returns True and raises otherwise
VerifyAttributionData ==
    /\ pc = "loaded"
    /\ load_result # "raised"
    /\ verified' = returned_bool(verify_attribution_data(table_exists, table))
    /\ pc' = IF verify_attribution_data(table_exists, table) THEN "report" ELSE "aborted"
    /\ UNCHANGED <<chunkVars, sendVars, api_responses, table, attribution_data,
                   error_counts, load_result, table_before, last_written,
                   table_exists, reportVars, transformVars,
                   pipelineVars>>

\* the run is over; the table stays for the next run
NextRun ==
    /\ pc \in {"report", "aborted", "done"}
    /\ pc' = "idle"
    /\ api_responses' = NoFile
    /\ attribution_data' = <<>>
    /\ error_counts' = <<>>
    /\ load_result' = "none"
    /\ verified' = "none"
    /\ table_before' = table
    /\ UNCHANGED <<chunkVars, sendVars, table, last_written, table_exists,
                   reportVars, transformVars,
                   pipelineVars>>

LoadNext ==
    \/ ReceiveResponses
    \/ LoadAttributionResults
    \/ LoadRaised
    \/ VerifyAttributionData
    \/ NextRun

LoadSpec == LoadInit /\ [][LoadNext]_vars

\* candidates of two keys with a negative, a zero and a positive ihc
WeightCands ==
    {JDict([conversion_id |-> JStr(c), session_id |-> JStr("s1"), ihc |-> x]) :
        c \in {"c1", "c2"}, x \in {JNum(0 - 4), JInt(0), JNum(6)}}

\* the files of one response of status 200 with 1..MaxWeighted such candidates
WeightStreams ==
    UNION {{<<JDict([statusCode |-> JInt(200), value |-> JList(cs)])>> :
                cs \in [1..k -> WeightCands]} : k \in 1..MaxWeighted}

\* a submission run leaves an API response file with signed ihc values
ReceiveWeighted ==
    /\ pc = "idle"
    /\ api_responses' \in {File(content) : content \in WeightStreams}
    /\ pc' = "load"
    /\ UNCHANGED <<chunkVars, sendVars, table, attribution_data, error_counts,
                   load_result, table_before, last_written, table_exists,
                   verified, reportVars, transformVars,
                   pipelineVars>>

WeightNext ==
    \/ ReceiveWeighted
    \/ LoadAttributionResults
    \/ LoadRaised
    \/ VerifyAttributionData
    \/ NextRun

WeightSpec == LoadInit /\ [][WeightNext]_vars

\* candidates as the service may send them: two valid ones, values that are
\* not objects, an object without conversion_id, and objects whose ihc is
\* null or not a number
MalformedCands ==
    {JDict([conversion_id |-> JStr("c1"), session_id |-> JStr("s1"), ihc |-> JNum(4)]),
     JDict([conversion_id |-> JStr("c2"), session_id |-> JStr("s1"), ihc |-> JNum(6)]),
     JNull,
     JInt(5),
     JStr("oops"),
     JList(<<>>),
     JDict([session_id |-> JStr("s1"), ihc |-> JNum(4)]),
     JDict([conversion_id |-> JStr("c2"), session_id |-> JStr("s1"), ihc |-> JNull]),
     JDict([conversion_id |-> JStr("c2"), session_id |-> JStr("s1"), ihc |-> JStr("n/a")])}

\* the files of one response of status 200 with 1..MaxMalformed such candidates
MalformedStreams ==
    UNION {{<<JDict([statusCode |-> JInt(200), value |-> JList(cs)])>> :
                cs \in [1..k -> MalformedCands]} : k \in 1..MaxMalformed}

\* a submission run leaves an API response file with malformed candidates
ReceiveMalformed ==
    /\ pc = "idle"
    /\ api_responses' \in {File(content) : content \in MalformedStreams}
    /\ pc' = "load"
    /\ UNCHANGED <<chunkVars, sendVars, table, attribution_data, error_counts,
                   load_result, table_before, last_written, table_exists,
                   verified, reportVars, transformVars,
                   pipelineVars>>

CandidateNext ==
    \/ ReceiveMalformed
    \/ LoadAttributionResults
    \/ LoadRaised
    \/ VerifyAttributionData
    \/ NextRun

CandidateSpec == LoadInit /\ [][CandidateNext]_vars

\* the tables verify_attribution_data may find: at most one row per key, of
\* negative, zero or positive ihc
StoredTables ==
    UNION {{{[conv_id |-> ToString(k), session_id |-> "s1", ihc |-> f[k]] : k \in ks} :
                f \in [ks -> {0 - 4, 0, 6}]} : ks \in SUBSET (1..NumStoreKeys)}

\* verify_attribution_data is called on a database where the table is
\* missing or holds one of the stored tables
VerifyInit ==
    /\ pc = "verify"
    /\ data = <<>> /\ chunks = <<>>
    /\ SendIdle
    /\ api_responses = NoFile
    /\ attribution_data = <<>>
    /\ error_counts = <<>>
    /\ load_result = "none"
    /\ last_written = <<>>
    /\ verified = "none"
    /\ \/ table_exists = FALSE /\ table = {}
       \/ table_exists = TRUE /\ table \in StoredTables
    /\ table_before = table
    /\ ReportIdle
    /\ TransformIdle
    /\ PipelineIdle

\* lines 149-169
VerifyStored ==
    /\ pc = "verify"
    /\ verified' = returned_bool(verify_attribution_data(table_exists, table))
    /\ pc' = "verified"
    /\ UNCHANGED <<chunkVars, sendVars, api_responses, table, attribution_data,
                   error_counts, load_result, table_before, last_written,
                   table_exists, reportVars, transformVars,
                   pipelineVars>>

VerifyNext == VerifyStored

VerifySpec == VerifyInit /\ [][VerifyNext]_vars

(***************************************************************************)
(* ChannelReporting, src/etl/reporting.py.  Dates are day numbers, costs   *)
(* and revenues whole amounts, ihc tenths (ihc_revenue is in tenths too).  *)
(***************************************************************************)
\* the blank text '' of a date column
blank == 0 - 1

\* line 77: the date '1970-01-01' given to a cost fact without event date
epoch == 0

\* SUM(column) over a set of rows
RECURSIVE SUM(_, _)
SUM(rows, column) ==
    IF rows = {} THEN 0
    ELSE LET r == CHOOSE x \in rows : TRUE IN r[column] + SUM(rows \ {r}, column)

\* COALESCE(NULLIF(channel_name, ''), 'unknown')
channel_or_unknown(channel_name) ==
    IF channel_name = "" THEN "unknown" ELSE channel_name

\* COALESCE(NULLIF(event_date, ''), fallback)
date_or(event_date, fallback) ==
    IF event_date = blank THEN fallback ELSE event_date

\* lines 58-73: one row per attribution row that joins a session and a
\* conversion
attribution_revenue(acj, ss, c) ==
    {[conv_id |-> a.conv_id, session_id |-> a.session_id,
      channel_name |-> channel_or_unknown(x.channel_name),
      date |-> date_or(x.event_date, y.conv_date),
      ihc |-> a.ihc,
      attributed_revenue |-> y.revenue * a.ihc] :
        <<a, x, y>> \in {t \in acj \X ss \X c :
                            /\ t[2].session_id = t[1].session_id
                            /\ t[3].conv_id = t[1].conv_id
                            /\ t[1].session_id # ""}}

\* COALESCE(sc.cost, 0) of the LEFT JOIN: the rows of session_costs that
\* join the session, or one row of cost 0
costs_of(session_id, sc) ==
    IF \E z \in sc : z.session_id = session_id
    THEN {z \in sc : z.session_id = session_id}
    ELSE {[session_id |-> session_id, cost |-> 0]}

\* lines 74-84: one row per session and joined cost row
channel_costs(ss, sc) ==
    {[session_id |-> x.session_id,
      channel_name |-> channel_or_unknown(x.channel_name),
      date |-> date_or(x.event_date, epoch),
      cost |-> z.cost] :
        <<x, z>> \in {t \in ss \X (sc \cup {[session_id |-> x.session_id, cost |-> 0] : x \in ss}) :
                        t[2] \in costs_of(t[1].session_id, sc)}}

\* lines 91-94: attribution_revenue ar LEFT JOIN channel_costs cc on
\* (channel_name, date): one row per pair of a revenue fact and a matching
\* cost fact, and one row with a NULL cost for a revenue fact without match
joined(ar, cc) ==
    {[conv_id |-> a.conv_id, session_id |-> a.session_id,
      channel_name |-> a.channel_name, date |-> a.date,
      ihc |-> a.ihc, attributed_revenue |-> a.attributed_revenue,
      cc_session_id |-> k.session_id, cost |-> k.cost] :
        <<a, k>> \in {t \in ar \X cc :
                        t[1].channel_name = t[2].channel_name /\ t[1].date = t[2].date}}
    \cup
    {[conv_id |-> a.conv_id, session_id |-> a.session_id,
      channel_name |-> a.channel_name, date |-> a.date,
      ihc |-> a.ihc, attributed_revenue |-> a.attributed_revenue,
      cc_session_id |-> "", cost |-> 0] :
        a \in {x \in ar : ~\E k \in cc : x.channel_name = k.channel_name /\ x.date = k.date}}

\* (SELECT MIN(conv_date) FROM conversions), for a table that is not empty
min_conv_date(c) == CHOOSE d \in {y.conv_date : y \in c} : \A y \in c : d <= y.conv_date

\* the HAVING clause without the test of the channel
having_any_channel(channel_name, date, c) ==
    /\ c # {}
    /\ date >= min_conv_date(c)

\* lines 96-97: the HAVING clause
having(channel_name, date, c) ==
    /\ channel_name # "unknown"
    /\ c # {}
    /\ date >= min_conv_date(c)

\* lines 85-97: GROUP BY ar.channel_name, ar.date with the three sums
rollup(ar, cc, c) ==
    LET j == joined(ar, cc)
        group(ch, d) == {r \in j : r.channel_name = ch /\ r.date = d}
    IN  {[channel_name |-> g[1], date |-> g[2],
          cost |-> SUM(group(g[1], g[2]), "cost"),
          ihc |-> SUM(group(g[1], g[2]), "ihc"),
          ihc_revenue |-> SUM(group(g[1], g[2]), "attributed_revenue")] :
            g \in {k \in {<<r.channel_name, r.date>> : r \in j} : having(k[1], k[2], c)}}

\* lines 57-101: the query on the four tables
query(acj, ss, sc, c) ==
    rollup(attribution_revenue(acj, ss, c), channel_costs(ss, sc), c)

\* the rows of the earlier run left in place
delete_nothing(rows) == rows

\* line 53: DELETE FROM channel_reporting
delete_from(rows) == {}

\* the empty result let through
df_empty_ignored(df) == FALSE

\* line 104: `if df.empty'
df_empty(df) == df = {}

\* lines 109-120: INSERT of a row violates PRIMARY KEY(channel_name, date)
insert_raises(rows, df) ==
    \E r \in rows, n \in df : r.channel_name = n.channel_name /\ r.date = n.date

\* lines 43-141: the outcome of aggregate_channel_metrics: channel_reporting
\* as committed and how the call ended
aggregate(exists, acj, ss, sc, c, rows) ==
    IF ~exists THEN [result |-> "raised", rows |-> rows]
    ELSE LET cleared == delete_from(rows)
             df == query(acj, ss, sc, c)
         IN  IF df_empty(df) THEN [result |-> "raised", rows |-> cleared]
             ELSE IF insert_raises(cleared, df) THEN [result |-> "raised", rows |-> cleared]
             ELSE [result |-> "ok", rows |-> cleared \cup df]

RECURSIVE gcd(_, _)
gcd(a, b) == IF b = 0 THEN a ELSE gcd(b, a % b)

\* the real number n / d for d > 0, as a fraction in lowest terms
quotient(n, d) ==
    LET g == gcd(IF n < 0 THEN 0 - n ELSE n, d)
    IN  [num |-> IF n < 0 THEN 0 - ((0 - n) \div g) ELSE n \div g, den |-> d \div g]

\* cost / ihc whatever the sign of ihc
cpo_unguarded(cost, ihc) ==
    IF ihc = 0 THEN [num |-> 0, den |-> 0]
    ELSE IF ihc < 0 THEN quotient(0 - 10 * cost, 0 - ihc)
    ELSE quotient(10 * cost, ihc)

\* lines 157-160: CASE WHEN ihc > 0 THEN cost / ihc ELSE 0 END
cpo(cost, ihc) == IF ihc > 0 THEN quotient(10 * cost, ihc) ELSE quotient(0, 1)

\* lines 161-164: CASE WHEN cost > 0 THEN ihc_revenue / cost ELSE 0 END
roas(ihc_revenue, cost) ==
    IF cost > 0 THEN quotient(ihc_revenue, 10 * cost) ELSE quotient(0, 1)

\* the channel names in the order of the text collation
Channels == <<"A", "B">>

\* line 166: r1 comes before r2 in ORDER BY channel_name, date
order_by(r1, r2) ==
    LET rank(ch) == CHOOSE i \in 1..Len(Channels) : Channels[i] = ch
    IN  \/ rank(r1.channel_name) < rank(r2.channel_name)
        \/ r1.channel_name = r2.channel_name /\ r1.date < r2.date

\* lines 150-169: the rows of the exported report
RECURSIVE export(_)
export(rows) ==
    IF rows = {} THEN <<>>
    ELSE LET r == CHOOSE x \in rows : \A y \in rows \ {x} : order_by(x, y)
         IN  <<[channel_name |-> r.channel_name, date |-> r.date, cost |-> r.cost,
                ihc |-> r.ihc, ihc_revenue |-> r.ihc_revenue,
                cpo |-> cpo(r.cost, r.ihc),
                roas |-> roas(r.ihc_revenue, r.cost)]>> \o export(rows \ {r})

\* what a session row may hold besides its id
SessionKinds ==
    {[channel_name |-> "A", event_date |-> 2],
     [channel_name |-> "B", event_date |-> 2],
     [channel_name |-> "", event_date |-> 2],
     [channel_name |-> "A", event_date |-> blank]}

SessionSources ==
    {{[session_id |-> ToString(k), channel_name |-> kind[k].channel_name,
       event_date |-> kind[k].event_date] : k \in 1..NumSessions} :
        kind \in [1..NumSessions -> SessionKinds]}

SessionCosts ==
    {{[session_id |-> ToString(k), cost |-> 2] : k \in ks} : ks \in SUBSET (1..NumSessions)}

Conversions ==
    {{[conv_id |-> "c1", conv_date |-> d, revenue |-> 10]} : d \in {2, 3}}

\* attribution rows of conversion c1 for some of the sessions, as loads
\* leave them: no row, or rows of which one has ihc > 0 (every load that
\* writes has a positive total)
AttributionTables ==
    {t \in UNION {{{[conv_id |-> "c1", session_id |-> ToString(k), ihc |-> f[k]] : k \in ks} :
                        f \in [ks -> {0 - 4, 0, 6}]} : ks \in SUBSET (1..NumSessions)} :
        t = {} \/ \E r \in t : r.ihc > 0}

\* what an earlier aggregation may have left in channel_reporting
EarlierReports ==
    {{}, {[channel_name |-> "A", date |-> 2, cost |-> 2, ihc |-> 6, ihc_revenue |-> 60]}}

\* the report stage starts on a database with its facts
ReportInit ==
    /\ pc = "report"
    /\ data = <<>> /\ chunks = <<>>
    /\ SendIdle
    /\ api_responses = NoFile
    /\ attribution_data = <<>>
    /\ error_counts = <<>>
    /\ load_result = "none"
    /\ last_written = <<>>
    /\ verified = "none"
    /\ \/ table_exists = FALSE /\ table = {}
       \/ table_exists = TRUE /\ table \in AttributionTables
    /\ table_before = table
    /\ session_sources \in SessionSources
    /\ session_costs \in SessionCosts
    /\ conversions \in Conversions
    /\ channel_reporting \in EarlierReports
    /\ aggregate_result = "none"
    /\ reporting_before = channel_reporting
    /\ channel_report = <<>>
    /\ pending = channel_reporting /\ df_left = {}
    /\ TransformIdle
    /\ PipelineIdle

\* lines 38-141, on the facts as they are
AggregateChannelMetrics ==
    /\ pc \in {"report", "aggregated", "exported", "aborted"}
    /\ LET out == aggregate(table_exists, table, session_sources, session_costs,
                            conversions, channel_reporting)
       IN  /\ channel_reporting' = out.rows
           /\ pending' = out.rows
           /\ aggregate_result' = out.result
           /\ pc' = IF out.result = "ok" THEN "aggregated" ELSE "aborted"
    /\ reporting_before' = channel_reporting
    /\ UNCHANGED <<chunkVars, sendVars, loadVars, transformVars, pipelineVars,
                   session_sources, session_costs,
                   conversions, channel_report, df_left>>

\* lines 143-176
ExportChannelReport ==
    /\ pc = "aggregated"
    /\ channel_report' = export(channel_reporting)
    /\ pc' = "exported"
    /\ UNCHANGED <<chunkVars, sendVars, loadVars, transformVars, pipelineVars,
                   session_sources, session_costs,
                   conversions, channel_reporting, aggregate_result, reporting_before,
                   pending, df_left>>

ReportNext == AggregateChannelMetrics \/ ExportChannelReport

ReportSpec == ReportInit /\ [][ReportNext]_vars

(***************************************************************************)
(* Steps 4 and 5 of the pipeline, run after run on one database: the load, *)
(* the verification and the channel report on the facts of one session.    *)
(***************************************************************************)
\* the facts copied by copy_initial_data: session s1 of channel A with its
\* cost, and the conversions c1 and c2
RunFacts ==
    /\ session_sources = {[session_id |-> "s1", channel_name |-> "A", event_date |-> 2]}
    /\ session_costs = {[session_id |-> "s1", cost |-> 2]}
    /\ conversions = {[conv_id |-> c, conv_date |-> 2, revenue |-> 10] : c \in {"c1", "c2"}}

RunInit ==
    /\ pc = "idle"
    /\ data = <<>> /\ chunks = <<>>
    /\ SendIdle
    /\ LoadIdle
    /\ RunFacts
    /\ channel_reporting = {}
    /\ aggregate_result = "none"
    /\ reporting_before = {}
    /\ channel_report = <<>>
    /\ pending = {} /\ df_left = {}
    /\ TransformIdle
    /\ PipelineIdle

\* main.py lines 71-77: create_reporting_table, aggregate_channel_metrics,
\* export_channel_report
CreateChannelReport ==
    /\ pc = "report"
    /\ LET out == aggregate(table_exists, table, session_sources, session_costs,
                            conversions, channel_reporting)
       IN  /\ channel_reporting' = out.rows
           /\ pending' = out.rows
           /\ aggregate_result' = out.result
           /\ channel_report' = IF out.result = "ok" THEN export(out.rows)
                                ELSE channel_report
           /\ pc' = IF out.result = "ok" THEN "done" ELSE "aborted"
    /\ reporting_before' = channel_reporting
    /\ UNCHANGED <<chunkVars, sendVars, loadVars, transformVars, pipelineVars,
                   session_sources, session_costs, conversions, df_left>>

\* the files of a run: candidates with signed ihc values, or one candidate
\* that lacks its ihc
RunStreams ==
    WeightStreams \cup
    {<<JDict([statusCode |-> JInt(200),
              value |-> JList(<<JDict([conversion_id |-> JStr("c1"),
                                       session_id |-> JStr("s1")])>>)])>>}

\* step 3 of a run leaves an API response file
ReceiveRunResponses ==
    /\ pc = "idle"
    /\ api_responses' \in {File(content) : content \in RunStreams}
    /\ pc' = "load"
    /\ UNCHANGED <<chunkVars, sendVars, table, attribution_data, error_counts,
                   load_result, table_before, last_written, table_exists,
                   verified, reportVars, transformVars, pipelineVars>>

RunNext ==
    \/ ReceiveRunResponses
    \/ LoadAttributionResults
    \/ LoadRaised
    \/ VerifyAttributionData
    \/ CreateChannelReport
    \/ NextRun

RunSpec == RunInit /\ [][RunNext]_vars

(***************************************************************************)
(* aggregate_channel_metrics statement by statement, with the process      *)
(* dying between two statements.  channel_reporting is what the database   *)
(* holds as committed, pending what the connection of the call has written.*)
(***************************************************************************)
\* a commit that is not carried out
commit_nothing(committed, written) == committed

\* conn.commit(): what the connection has written becomes the committed
\* content
commit(committed, written) == written

\* the connection is lost: what it has written and not committed is undone
rollback(committed, written) == committed

\* lines 45-53: the count of attribution rows (raises without the table),
\* then DELETE FROM channel_reporting
ExecuteDelete ==
    /\ pc = "report"
    /\ reporting_before' = channel_reporting
    /\ IF ~table_exists
       THEN /\ pc' = "aborted" /\ aggregate_result' = "raised"
            /\ UNCHANGED pending
       ELSE /\ pc' = "deleted"
            /\ pending' = delete_from(channel_reporting)
            /\ UNCHANGED aggregate_result
    /\ UNCHANGED <<chunkVars, sendVars, loadVars, transformVars, pipelineVars,
                   session_sources, session_costs, conversions, channel_reporting,
                   channel_report, df_left>>

\* line 54
CommitDelete ==
    /\ pc = "deleted"
    /\ channel_reporting' = commit(channel_reporting, pending)
    /\ pc' = "cleared"
    /\ UNCHANGED <<chunkVars, sendVars, loadVars, transformVars, pipelineVars,
                   session_sources, session_costs, conversions, aggregate_result,
                   reporting_before, channel_report, pending, df_left>>

\* lines 101-106
ReadQuery ==
    /\ pc = "cleared"
    /\ df_left' = query(table, session_sources, session_costs, conversions)
    /\ IF df_empty(df_left')
       THEN pc' = "aborted" /\ aggregate_result' = "raised"
       ELSE pc' = "inserting" /\ UNCHANGED aggregate_result
    /\ UNCHANGED <<chunkVars, sendVars, loadVars, transformVars, pipelineVars,
                   session_sources, session_costs, conversions, channel_reporting,
                   reporting_before, channel_report, pending>>

\* lines 109-120: one iteration of `for _, row in df.iterrows()'; a row that
\* violates the primary key raises and the connection rolls back
InsertRow ==
    /\ pc = "inserting"
    /\ \E row \in df_left :
        IF insert_raises(pending, {row})
        THEN /\ pc' = "aborted" /\ aggregate_result' = "raised"
             /\ pending' = rollback(channel_reporting, pending)
             /\ UNCHANGED df_left
        ELSE /\ pending' = pending \cup {row}
             /\ df_left' = df_left \ {row}
             /\ UNCHANGED <<pc, aggregate_result>>
    /\ UNCHANGED <<chunkVars, sendVars, loadVars, transformVars, pipelineVars,
                   session_sources, session_costs, conversions, channel_reporting,
                   reporting_before, channel_report>>

\* line 121
CommitInsert ==
    /\ pc = "inserting"
    /\ df_left = {}
    /\ channel_reporting' = commit(channel_reporting, pending)
    /\ pc' = "aggregated" /\ aggregate_result' = "ok"
    /\ UNCHANGED <<chunkVars, sendVars, loadVars, transformVars, pipelineVars,
                   session_sources, session_costs, conversions,
                   reporting_before, channel_report, pending, df_left>>

\* the process dies during the call: nothing more is written; pending keeps
\* what the lost connection had written
Crash ==
    /\ pc \in {"deleted", "cleared", "inserting"}
    /\ pc' = "crashed"
    /\ aggregate_result' = pc
    /\ channel_reporting' = rollback(channel_reporting, pending)
    /\ UNCHANGED <<chunkVars, sendVars, loadVars, transformVars, pipelineVars,
                   session_sources, session_costs, conversions,
                   reporting_before, channel_report, pending, df_left>>

CrashNext ==
    \/ ExecuteDelete
    \/ CommitDelete
    \/ ReadQuery
    \/ InsertRow
    \/ CommitInsert
    \/ Crash

CrashSpec == ReportInit /\ [][CrashNext]_vars

(***************************************************************************)
(* DataTransformer.transform_data.  A date is a day number and a time a    *)
(* number within the day; the text "<date> <time>" of two well-formed      *)
(* values is the pair, and texts compare as the pairs do: by date, then by *)
(* time.  Rows and entries are reduced to the columns that decide which    *)
(* entries are built and how they are marked.                              *)
(***************************************************************************)
\* f"{date} {time}"
timestamp(date, time) == <<date, time>>

\* a < b for two such texts
str_less(a, b) == a[1] < b[1] \/ (a[1] = b[1] /\ a[2] < b[2])

\* lines 235-238: the rows of the user with event_date + ' ' + event_time <
\* conv_timestamp, in table order
user_sessions(df, user_id, conv_timestamp) ==
    SelectSeq(df, LAMBDA row :
        /\ row.user_id = user_id
        /\ str_less(timestamp(row.event_date, row.event_time), conv_timestamp))

\* lines 242-256: the entry built for a session of the journey
journey_entry(conv_id, session, conv_timestamp) ==
    LET session_timestamp == timestamp(session.event_date, session.event_time)
    IN  [conversion_id |-> conv_id,
         session_id |-> session.session_id,
         timestamp |-> session_timestamp,
         conversion |-> IF session_timestamp = conv_timestamp THEN 1 ELSE 0]

\* lines 229-260: the entries appended for one conversion row
journey(conversion, df) ==
    LET conv_timestamp == timestamp(conversion.conv_date, conversion.conv_time)
        rows == user_sessions(df, conversion.user_id, conv_timestamp)
    IN  [n \in 1..Len(rows) |-> journey_entry(conversion.conv_id, rows[n], conv_timestamp)]

\* `for _, conversion in conversions_df.iterrows()' from row k on
RECURSIVE journeys_from(_, _, _)
journeys_from(cdf, df, k) ==
    IF k > Len(cdf) THEN <<>>
    ELSE journey(cdf[k], df) \o journeys_from(cdf, df, k + 1)

\* lines 220-274: entries are appended to self.transformed_data; with none
\* the call raises, otherwise the list is saved and returned
transform_data(entries, cdf, df) ==
    LET all == entries \o journeys_from(cdf, df, 1)
    IN  [transformed_data |-> all,
         result |-> IF all = <<>> THEN "raised" ELSE "returned"]

Users == {"u1", "u2"}

Stamps == (1..NumStamps) \X (1..NumStamps)

\* the session_sources tables of n rows: session ids are the row numbers
SessionRows(n) ==
    {[i \in 1..n |-> [session_id |-> i, user_id |-> u[i],
                      event_date |-> st[i][1], event_time |-> st[i][2]]] :
        u \in [1..n -> Users], st \in [1..n -> Stamps]}

\* the conversions tables: no row or one row
ConversionRows ==
    {<<>>} \cup {<<[conv_id |-> "c1", user_id |-> u,
                    conv_date |-> st[1], conv_time |-> st[2]]>> :
                    u \in Users, st \in Stamps}

\* a transformer on a database as copy_initial_data left it
TransformInit ==
    /\ pc = "transform"
    /\ data = <<>> /\ chunks = <<>>
    /\ SendIdle
    /\ LoadIdle
    /\ ReportIdle
    /\ PipelineIdle
    /\ session_sources_df \in UNION {SessionRows(n) : n \in 0..MaxSessionRows}
    /\ conversions_df \in ConversionRows
    /\ transformed_data = <<>>
    /\ transform_result = "none"

\* lines 206-274
TransformData ==
    /\ pc = "transform"
    /\ LET out == transform_data(transformed_data, conversions_df, session_sources_df)
       IN  /\ transformed_data' = out.transformed_data
           /\ transform_result' = out.result
    /\ pc' = "transformed"
    /\ UNCHANGED <<chunkVars, sendVars, loadVars, reportVars, pipelineVars,
                   session_sources_df, conversions_df>>

TransformNext == TransformData

TransformSpec == TransformInit /\ [][TransformNext]_vars

(***************************************************************************)
(* A pipeline run: main() of main.py, or the task chain of the DAG          *)
(* (setup_database >> transform_data >> send_data_to_api >>                 *)
(* load_attribution_results >> create_channel_report).  A step is reduced   *)
(* to its configuration checks, to the database and network activity it     *)
(* causes and to where it raised; a date is a day number.                   *)
(***************************************************************************)
\* datetime.now()
now == 700

\* Variable.get raised or the text is not a date
no_date == 0

\* the values of attribution_start_date and attribution_end_date
DateValues == {no_date, 100, 200, 600, 900}

\* lines 51-54: datetime(2023, 8, 1), datetime(2023, 9, 30)
default_range == <<400, 460>>

\* os.getenv gives None for a variable that is not set
EnvValues == {"", "set"}

Environs ==
    [IHC_API_URL : EnvValues, IHC_API_KEY : EnvValues,
     Conv_Type_Id : EnvValues, CONV_TYPE_ID : EnvValues,
     attribution_start_date : DateValues, attribution_end_date : DateValues]

\* main.py lines 31-36: all([api_endpoint, api_key, conv_type_id])
cli_env_complete(env) ==
    env.IHC_API_URL # "" /\ env.IHC_API_KEY # "" /\ env.Conv_Type_Id # ""

\* ihc_api_dag.py lines 139-143
dag_env_complete(env) ==
    env.IHC_API_URL # "" /\ env.IHC_API_KEY # "" /\ env.CONV_TYPE_ID # ""

\* get_date_range: both variables parsed, or the default range
get_date_range(env) ==
    IF env.attribution_start_date # no_date /\ env.attribution_end_date # no_date
    THEN <<env.attribution_start_date, env.attribution_end_date>>
    ELSE default_range

\* validate_date_range raises
validate_date_range_raises(range) ==
    \/ range[1] > range[2]
    \/ range[2] > now
    \/ range[2] - range[1] > 365

\* create_initial_schema, copy_initial_data, verify_data
setup_activity == <<"db_write", "db_read", "db_write", "db_read">>

\* DataTransformer.transform_data: the two read_sql_query calls
transform_activity == <<"db_read", "db_read">>

\* send_transformed_data: the POST of the first batch
send_activity == <<"network">>

\* load_attribution_results that stores rows, then verify_attribution_data
load_activity == <<"db_write", "db_read">>

\* create_reporting_table, aggregate_channel_metrics, export_channel_report
report_activity == <<"db_write", "db_write", "db_read">>

PipelineInit ==
    /\ pc = "start"
    /\ data = <<>> /\ chunks = <<>>
    /\ SendIdle
    /\ LoadIdle
    /\ ReportIdle
    /\ TransformIdle
    /\ entry_point \in {"cli", "dag"}
    /\ environ \in Environs
    /\ effects = <<>>

\* main.py lines 30-37
CliValidate ==
    /\ pc = "start" /\ entry_point = "cli"
    /\ pc' = IF cli_env_complete(environ) THEN "setup" ELSE "failed_configuration"
    /\ UNCHANGED <<chunkVars, sendVars, loadVars, reportVars, transformVars,
                   pipelineVars>>

\* main.py lines 41-48
CliSetup ==
    /\ pc = "setup"
    /\ effects' = effects \o setup_activity
    /\ \E verify_data \in BOOLEAN : pc' = IF verify_data THEN "transform" ELSE "failed_setup"
    /\ UNCHANGED <<chunkVars, sendVars, loadVars, reportVars, transformVars,
                   entry_point, environ>>

\* main.py lines 52-53: transform_data() is called without its required
\* argument output_path and raises TypeError before its body runs
CliTransform ==
    /\ pc = "transform" /\ entry_point = "cli"
    /\ pc' = "failed_transform"
    /\ UNCHANGED <<chunkVars, sendVars, loadVars, reportVars, transformVars,
                   pipelineVars>>

\* ihc_api_dag.py lines 65-98
DagSetupDatabase ==
    /\ pc = "start" /\ entry_point = "dag"
    /\ IF validate_date_range_raises(get_date_range(environ))
       THEN pc' = "failed_date_range" /\ UNCHANGED effects
       ELSE /\ effects' = effects \o setup_activity
            /\ \E verify_data \in BOOLEAN :
                    pc' = IF verify_data THEN "transform" ELSE "failed_setup"
    /\ UNCHANGED <<chunkVars, sendVars, loadVars, reportVars, transformVars,
                   entry_point, environ>>

\* ihc_api_dag.py lines 100-128
DagTransformData ==
    /\ pc = "transform" /\ entry_point = "dag"
    /\ effects' = effects \o transform_activity
    /\ \E entries_created \in BOOLEAN :
            pc' = IF entries_created THEN "send" ELSE "failed_transform"
    /\ UNCHANGED <<chunkVars, sendVars, loadVars, reportVars, transformVars,
                   entry_point, environ>>

\* ihc_api_dag.py lines 130-179
DagSendDataToApi ==
    /\ pc = "send"
    /\ IF ~dag_env_complete(environ)
       THEN pc' = "failed_configuration" /\ UNCHANGED effects
       ELSE /\ effects' = effects \o send_activity
            /\ \E accepted_any \in BOOLEAN :
                    pc' = IF accepted_any THEN "load" ELSE "failed_send"
    /\ UNCHANGED <<chunkVars, sendVars, loadVars, reportVars, transformVars,
                   entry_point, environ>>

\* ihc_api_dag.py lines 181-227
DagLoadAttributionResults ==
    /\ pc = "load"
    /\ \E outcome \in {"raised", "unverified", "verified"} :
            /\ effects' = effects \o (IF outcome = "raised" THEN <<"db_read">>
                                      ELSE load_activity)
            /\ pc' = IF outcome = "verified" THEN "report" ELSE "failed_load"
    /\ UNCHANGED <<chunkVars, sendVars, loadVars, reportVars, transformVars,
                   entry_point, environ>>

\* ihc_api_dag.py lines 229-248
DagCreateChannelReport ==
    /\ pc = "report"
    /\ effects' = effects \o report_activity
    /\ \E rollup_empty \in BOOLEAN : pc' = IF rollup_empty THEN "failed_report" ELSE "done"
    /\ UNCHANGED <<chunkVars, sendVars, loadVars, reportVars, transformVars,
                   entry_point, environ>>

PipelineNext ==
    \/ CliValidate
    \/ CliSetup
    \/ CliTransform
    \/ DagSetupDatabase
    \/ DagTransformData
    \/ DagSendDataToApi
    \/ DagLoadAttributionResults
    \/ DagCreateChannelReport

PipelineSpec == PipelineInit /\ [][PipelineNext]_vars

(***************************************************************************)
(* Properties of load_attribution_results                                  *)
(***************************************************************************)
\* the candidates of the file in stream order: response order, then the
\* order inside each response
RECURSIVE CandidatesFrom(_, _)
CandidatesFrom(content, k) ==
    IF k > Len(content) THEN <<>>
    ELSE extended(content[k]).items \o CandidatesFrom(content, k + 1)

\* a candidate that carries the three fields, a numeric ihc and non-empty ids
ValidCandidate(c) ==
    /\ c.t = "dict"
    /\ {"conversion_id", "session_id", "ihc"} \subseteq DOMAIN c.f
    /\ c.f.ihc.t \in {"num", "int"}
    /\ str(c.f.conversion_id) # "" /\ str(c.f.session_id) # ""

ValidCandidates(content) == SelectSeq(CandidatesFrom(content, 1), ValidCandidate)

\* the first occurrences of every key among the valid candidates, in order
FirstOccurrences(content) ==
    LET vs == ValidCandidates(content)
        numbered == [n \in 1..Len(vs) |-> [n |-> n, entry |-> entry_of(vs[n])]]
        first(x) == \A m \in 1..(x.n - 1) : key_of(entry_of(vs[m])) # key_of(x.entry)
        kept == SelectSeq(numbered, first)
    IN  [n \in 1..Len(kept) |-> kept[n].entry]

Reconciled == pc = "loaded" /\ load_result \in {"loaded", "returned_empty"}

\* C8: the reconciled list is the sequence of first occurrences of each
\* (conv_id, session_id) key among the valid candidates in stream order; a
\* later candidate with a seen key is dropped whatever its ihc, and no two
\* reconciled records share a key
C8_DedupFirstWins ==
    Reconciled =>
        /\ attribution_data = FirstOccurrences(api_responses.content)
        /\ \A m, n \in 1..Len(attribution_data) :
                key_of(attribution_data[m]) = key_of(attribution_data[n]) => m = n

\* two responses carry the same key with different ihc: the first one is kept
C8_Witness ==
    /\ Reconciled
    /\ Len(api_responses.content) = 2
    /\ LET vs == ValidCandidates(api_responses.content)
       IN  /\ Len(vs) = 2
           /\ key_of(entry_of(vs[1])) = key_of(entry_of(vs[2]))
           /\ entry_of(vs[1]).ihc # entry_of(vs[2]).ihc
           /\ attribution_data = <<entry_of(vs[1])>>
    /\ Len(extended(api_responses.content[1]).items) = 1

\* C9: after any sequence of loads, the stored ihc of a key is the value
\* written by the most recent successful load that contained the key
C9_UpsertLastWins ==
    \A key \in DOMAIN last_written :
        {r.ihc : r \in {x \in table : key_of(x) = key}} = {last_written[key]}

\* a load wrote a changed ihc for a key that was already stored
C9_Witness ==
    /\ pc = "loaded" /\ load_result = "loaded"
    /\ \E r \in table_before : \E n \in 1..Len(attribution_data) :
            /\ key_of(r) = key_of(attribution_data[n])
            /\ r.ihc # attribution_data[n].ihc
            /\ attribution_data[n] \in table

\* C10: attribution_customer_journey never holds two rows with the same
\* (conv_id, session_id)
C10_UniqueKey ==
    \A r1, r2 \in table : key_of(r1) = key_of(r2) => r1 = r2

\* two keys are stored and a load has replaced the row of one of them
C10_Witness ==
    /\ pc = "loaded" /\ load_result = "loaded"
    /\ Cardinality(table) = 2
    /\ \E r \in table_before : r \notin table

\* the file holds only error objects and items of unknown structure or type
OnlyErrorsOrInvalid(content) ==
    \A k \in 1..Len(content) :
        classify(content[k]) \in {"error", "invalid_structure", "invalid_type"}

\* C11: a response set in which every item is an error object or an invalid
\* structure makes load_attribution_results raise and leaves the table alone
C11_NoCandidateIsFatal ==
    (pc = "loaded" /\ OnlyErrorsOrInvalid(api_responses.content)) =>
        /\ load_result = "raised"
        /\ attribution_data = <<>>
        /\ table = table_before

\* an error object and an invalid item met a table that held a row
C11_Witness ==
    /\ pc = "loaded" /\ load_result = "raised"
    /\ Len(api_responses.content) = 2
    /\ classify(api_responses.content[1]) = "error"
    /\ classify(api_responses.content[2]) = "invalid_structure"
    /\ table # {} /\ table = table_before
    /\ DOMAIN error_counts = {"unknown_error", "invalid_structure"}

\* C12: when the reconciled records are not empty and their ihc sum to 0 or
\* less, load_attribution_results raises and the table is as it was
C12_NonPositiveTotalAborts ==
    [][(pc = "load" /\ attribution_data' # <<>> /\ total(attribution_data', 1) <= 0) =>
            /\ load_result' = "raised"
            /\ table' = table
            /\ table_exists' = table_exists]_vars

\* two records that sum to less than 0 met a table that held a row
C12_Witness ==
    /\ pc = "loaded" /\ load_result = "raised"
    /\ Len(attribution_data) = 2
    /\ total(attribution_data, 1) < 0
    /\ table # {} /\ table = table_before

\* C13: a pipeline run whose reconciliation yields no valid record never
\* reaches the report stage, whatever earlier runs left in the table
C13_NoValidRecordAborts ==
    load_result = "returned_empty" => pc # "report"

\* C14: verify_attribution_data returns True exactly when a stored row has
\* ihc > 0 and False otherwise (no row, no positive row, table missing); it
\* returns and does not change the table
C14_VerifyIffPositiveRow ==
    /\ [](pc = "verified" =>
            /\ verified \in {"True", "False"}
            /\ verified = "True" <=> (table_exists /\ \E r \in table : r.ihc > 0))
    /\ [][pc = "verify" =>
            (pc' = "verified" /\ table' = table /\ table_exists' = table_exists)]_vars

\* False was returned on a table whose rows all have ihc <= 0
C14_Witness ==
    /\ pc = "verified" /\ verified = "False"
    /\ table_exists
    /\ Cardinality(table) = 2
    /\ \E r \in table : r.ihc = 0
    /\ \E r \in table : r.ihc < 0

\* C21: a malformed candidate (not an object, a field missing, an ihc that
\* is null or not a number) among valid ones does not abort the load: the
\* load succeeds and every valid candidate's key is stored
C21_MalformedCandidateSkipped ==
    (pc = "loaded" /\ ValidCandidates(api_responses.content) # <<>>
        /\ total(FirstOccurrences(api_responses.content), 1) > 0) =>
        /\ load_result = "loaded"
        /\ \A key \in Keys(FirstOccurrences(api_responses.content)) :
                \E r \in table : key_of(r) = key

\* the shapes of a response item, as properties of the item
HasField(item, key) == item.t = "dict" /\ key \in DOMAIN item.f

SuccessEnvelope(item) == HasField(item, "statusCode") /\ item.f.statusCode = JInt(200)

WithValue(item) == HasField(item, "value") /\ item.f.value.t = "list"

\* the candidates an item contributes under the precedence: success envelope
\* with value array, success envelope missing value, data, results, error
\* object, flat list, anything else
Contribution(item) ==
    IF SuccessEnvelope(item)
    THEN IF WithValue(item) THEN item.f.value.items ELSE <<>>
    ELSE IF HasField(item, "data") THEN item.f.data.items
    ELSE IF HasField(item, "results") THEN item.f.results.items
    ELSE IF HasField(item, "error") THEN <<>>
    ELSE IF item.t = "list" THEN item.items
    ELSE <<>>

\* how often an item is counted under a diagnostic key
Weight(item, key) ==
    IF SuccessEnvelope(item)
    THEN IF WithValue(item)
         THEN IF key = "partial_failure" /\ HasField(item, "partialFailureErrors")
              THEN Len(item.f.partialFailureErrors.items) ELSE 0
         ELSE IF key = "missing_value" THEN 1 ELSE 0
    ELSE IF HasField(item, "data") \/ HasField(item, "results") THEN 0
    ELSE IF HasField(item, "error")
    THEN IF key = (IF HasField(item, "error_code") THEN item.f.error_code.s
                   ELSE "unknown_error") THEN 1 ELSE 0
    ELSE IF item.t = "dict" THEN IF key = "invalid_structure" THEN 1 ELSE 0
    ELSE IF item.t = "list" THEN 0
    ELSE IF key = "invalid_type" THEN 1 ELSE 0

RECURSIVE Tally(_, _, _)
Tally(content, key, k) ==
    IF k > Len(content) THEN 0 ELSE Weight(content[k], key) + Tally(content, key, k + 1)

RECURSIVE Contributions(_, _)
Contributions(content, k) ==
    IF k > Len(content) THEN <<>>
    ELSE Contribution(content[k]) \o Contributions(content, k + 1)

DiagnosticKeys ==
    {"partial_failure", "missing_value", "unknown_error", "E429",
     "invalid_structure", "invalid_type"}

\* the first occurrences of every key among the valid candidates of cands
FirstValid(cands) ==
    LET vs == SelectSeq(cands, ValidCandidate)
        numbered == [n \in 1..Len(vs) |-> [n |-> n, entry |-> entry_of(vs[n])]]
        first(x) == \A m \in 1..(x.n - 1) : key_of(entry_of(vs[m])) # key_of(x.entry)
        kept == SelectSeq(numbered, first)
    IN  [n \in 1..Len(kept) |-> kept[n].entry]

\* C22: every response item is handled by the first shape it matches: the
\* diagnostics count each item under the key of that shape only, the load
\* raises when no item contributes a candidate, and the reconciled records
\* come from the candidates of the value, data, results and list items only
C22_FirstMatchingShape ==
    (pc = "loaded" /\ api_responses.exists) =>
        LET content == api_responses.content
        IN  /\ DOMAIN error_counts = {key \in DiagnosticKeys : Tally(content, key, 1) > 0}
            /\ \A key \in DOMAIN error_counts : error_counts[key] = Tally(content, key, 1)
            /\ Contributions(content, 1) = <<>> => load_result = "raised"
            /\ Reconciled => attribution_data = FirstValid(Contributions(content, 1))

\* a success envelope without value that carries data was counted as
\* missing_value, and the candidate of an envelope with two partial failures
\* was stored
C22_Witness ==
    /\ pc = "loaded" /\ load_result = "loaded"
    /\ Len(api_responses.content) = 2
    /\ SuccessEnvelope(api_responses.content[1])
    /\ HasField(api_responses.content[1], "data")
    /\ api_responses.content[1].f.data.items # <<>>
    /\ HasField(api_responses.content[2], "partialFailureErrors")
    /\ error_counts = [key \in {"missing_value", "partial_failure"} |->
                            IF key = "missing_value" THEN 1 ELSE 2]
    /\ attribution_data = FirstValid(api_responses.content[2].f.value.items)
    /\ attribution_data # FirstValid(api_responses.content[1].f.data.items)

\* C23: every row of attribution_customer_journey has ihc >= 0
C23_StoredIhcNonNegative ==
    \A r \in table : r.ihc >= 0

(***************************************************************************)
(* Properties of transform_data                                            *)
(***************************************************************************)
\* C24: in the transformed data, every journey has exactly one entry with
\* conversion = 1, the one whose timestamp is the conversion timestamp, and
\* conversion = 0 in every other entry
C24_OneConvertingEntry ==
    transform_result = "returned" =>
        \A k \in 1..Len(conversions_df) :
            LET conv == conversions_df[k]
                entries == SelectSeq(transformed_data,
                               LAMBDA e : e.conversion_id = conv.conv_id)
            IN  entries # <<>> =>
                    /\ Cardinality({n \in 1..Len(entries) : entries[n].conversion = 1}) = 1
                    /\ \A n \in 1..Len(entries) :
                            entries[n].conversion =
                                IF entries[n].timestamp =
                                        timestamp(conv.conv_date, conv.conv_time)
                                THEN 1 ELSE 0

(***************************************************************************)
(* Properties of a pipeline run                                            *)
(***************************************************************************)
\* the configuration the entry point reads is incomplete or its date range
\* is rejected
ConfigurationInvalid ==
    \/ entry_point = "cli" /\ ~cli_env_complete(environ)
    \/ entry_point = "dag" /\ ~dag_env_complete(environ)
    \/ entry_point = "dag" /\ validate_date_range_raises(get_date_range(environ))

\* C25: a run with missing credentials, endpoint or conversion-type id, or
\* with an invalid date range, performs no network request and no database
\* read or write, under both entry points
C25_ConfigurationCheckedFirst ==
    ConfigurationInvalid => effects = <<>>

(***************************************************************************)
(* Properties of the load followed by the report                           *)
(***************************************************************************)
\* the stored rows whose key the latest load did not write
Stale == {r \in table : key_of(r) \notin Keys(attribution_data)}

\* C30: a load removes no stored key: a row whose key is not among the
\* reconciled records of the load stays as it is; verify_attribution_data
\* counts such a row and the next aggregation sums its ihc with the others
C30_StaleRowsStayAndCount ==
    /\ [][pc = "load" =>
            \A r \in table : key_of(r) \notin Keys(attribution_data') => r \in table']_vars
    /\ [](verified # "none" =>
            (verified = "True" <=>
                ((\E r \in Stale : r.ihc > 0) \/ (\E r \in table \ Stale : r.ihc > 0))))
    /\ []((pc = "done" /\ aggregate_result = "ok") =>
            \E row \in channel_reporting :
                /\ channel_reporting = {row}
                /\ row.ihc = SUM(table, "ihc")
                /\ row.ihc_revenue = 10 * SUM(table, "ihc"))

\* the latest load wrote the key of c2 only; the row of c1 from an earlier
\* run is still stored and its ihc is in the aggregated row
C30_Witness ==
    /\ pc = "done" /\ aggregate_result = "ok" /\ load_result = "loaded"
    /\ Keys(attribution_data) = {<<"c2", "s1">>}
    /\ \E r \in Stale : r.conv_id = "c1" /\ r.ihc = 6
    /\ \E row \in channel_reporting :
            row.ihc = 6 + attribution_data[1].ihc

(***************************************************************************)
(* Properties of ChannelReporting                                          *)
(***************************************************************************)
\* the rollup of the facts as they are
Rollup == query(table, session_sources, session_costs, conversions)

\* a step of aggregate_channel_metrics
AggregateStep == pc' \in {"aggregated", "aborted"}

\* C15: a run of aggregate_channel_metrics that follows a successful run on
\* unchanged facts succeeds and leaves channel_reporting as it was, and a row
\* of an earlier run is in the table after a successful run only when the
\* rollup of that run produces it
C15_AggregationIdempotent ==
    /\ []((pc = "aggregated" /\ aggregate_result = "ok") =>
            \A r \in reporting_before : r \in channel_reporting => r \in Rollup)
    /\ [][(aggregate_result = "ok" /\ AggregateStep) =>
            (aggregate_result' = "ok" /\ channel_reporting' = channel_reporting)]_vars

\* a successful run discarded the row of the earlier run and wrote two rows
C15_Witness ==
    /\ pc = "aggregated" /\ aggregate_result = "ok"
    /\ reporting_before # {}
    /\ reporting_before \cap channel_reporting = {}
    /\ Cardinality(channel_reporting) = 2

\* C16: when the rollup has no row, aggregate_channel_metrics raises and
\* channel_reporting is empty: the rows of the earlier run are gone
C16_EmptyRollupIsFatal ==
    [][(AggregateStep /\ table_exists /\ Rollup = {}) =>
            /\ pc' = "aborted"
            /\ aggregate_result' = "raised"
            /\ channel_reporting' = {}]_vars

\* the run raised on attribution rows that roll up to nothing and the row of
\* the earlier run is gone
C16_Witness ==
    /\ pc = "aborted" /\ aggregate_result = "raised"
    /\ table # {}
    /\ reporting_before # {}
    /\ channel_reporting = {}

\* C26: after a successful aggregate_channel_metrics, channel_reporting has
\* one row per (channel_name, date) at most, every row carries the channel
\* label of a session and none is 'unknown' or blank, and no row is dated
\* before the earliest conversion
C26_KeyedKnownChannelsFromMinDate ==
    (pc = "aggregated" /\ aggregate_result = "ok") =>
        /\ \A r1, r2 \in channel_reporting :
                (r1.channel_name = r2.channel_name /\ r1.date = r2.date) => r1 = r2
        /\ \A r \in channel_reporting :
                /\ r.channel_name \notin {"unknown", ""}
                /\ \E x \in session_sources : x.channel_name = r.channel_name
                /\ \E y \in conversions : r.date >= y.conv_date
                /\ \A y \in conversions : r.date >= y.conv_date

\* a run succeeded on attribution rows of which one belongs to a session with
\* a blank channel label: only the other one gave a row
C26_Witness ==
    /\ pc = "aggregated" /\ aggregate_result = "ok"
    /\ Cardinality(channel_reporting) = 1
    /\ Cardinality(table) = 2
    /\ \E a \in table : \E x \in session_sources :
            x.session_id = a.session_id /\ x.channel_name = "" /\ a.ihc > 0

\* C28: the clear of channel_reporting is committed on its own, before the
\* rows of the new rollup are written: from that commit until the commit of
\* the reload the table is empty for every reader, and a process that dies
\* in between leaves it empty, with neither the rows of the earlier run nor
\* some of the new rows
C28_EmptyBetweenClearAndReload ==
    /\ pc \in {"cleared", "inserting"} => channel_reporting = {}
    /\ (pc = "crashed" /\ aggregate_result \in {"cleared", "inserting"}) =>
            channel_reporting = {}
    /\ (pc = "crashed" /\ aggregate_result = "deleted") =>
            channel_reporting = reporting_before

\* the process died after the first of two new rows was written: the row of
\* the earlier run and the new row are both gone
C28_Witness ==
    /\ pc = "crashed" /\ aggregate_result = "inserting"
    /\ reporting_before # {}
    /\ Cardinality(pending) = 1 /\ Cardinality(df_left) = 1
    /\ channel_reporting = {}

\* the statements of aggregate_channel_metrics give what the call gives
StepwiseAgrees ==
    pc \in {"aggregated", "aborted"} =>
        LET out == aggregate(table_exists, table, session_sources, session_costs,
                             conversions, reporting_before)
        IN  channel_reporting = out.rows /\ aggregate_result = out.result

C19_EachFactCountedOnce ==
    (pc = "aggregated" /\ aggregate_result = "ok") =>
        \A r \in channel_reporting :
            LET ar == {a \in attribution_revenue(table, session_sources, conversions) :
                        a.channel_name = r.channel_name /\ a.date = r.date}
                cc == {k \in channel_costs(session_sources, session_costs) :
                        k.channel_name = r.channel_name /\ k.date = r.date}
            IN  /\ r.ihc = SUM(ar, "ihc")
                /\ r.ihc_revenue = SUM(ar, "attributed_revenue")
                /\ r.cost = SUM(cc, "cost")

====
